---- MODULE Spec2Model ----
(***************************************************************************)
(* A model of the POSIX threading layer of wxWidgets 3.0 as shipped with   *)
(* pcsx2 (src/3rdparty/wxwidgets3.0/src/unix/threadpsx.cpp): wxMutex with  *)
(* owner tracking, wxCondition, wxSemaphore built from the two, and the    *)
(* wxThread life cycle.  Every step of a method that another thread can    *)
(* observe is one action; a thread's position inside a method is its pc.   *)
(***************************************************************************)
EXTENDS Integers, Naturals, FiniteSets, Sequences, TLC


(***************************************************************************)
(* State                                                                   *)
(***************************************************************************)

\* wxMutexInternal, one mutex shared by MutexThreads
VARIABLES
    m_type,          \* wxMutexInternal::m_type
    m_mutex,         \* pthread_mutex_t: the thread that holds it, 0 when free
    m_lockDepth,     \* pthread_mutex_t: nesting count of a recursive mutex
    m_owningThread,  \* wxMutexInternal::m_owningThread, 0 = nobody
    mpc,             \* position of every thread inside a wxMutexInternal method
    mop,             \* the method every thread called last
    mres,            \* the wxMutexError the last finished call returned
    mcalls           \* number of calls made so far (history)

mvars == <<m_type, m_mutex, m_lockDepth, m_owningThread, mpc, mop, mres, mcalls>>

\* wxSemaphoreInternal, one semaphore shared by SemThreads
VARIABLES
    m_count,         \* wxSemaphoreInternal::m_count
    m_maxcount,      \* wxSemaphoreInternal::m_maxcount, 0 = unbounded
    s_init,          \* the initialcount the semaphore was constructed with
    s_mutex,         \* wxSemaphoreInternal::m_mutex: its holder, 0 when free
    s_cond,          \* wxSemaphoreInternal::m_cond: the threads blocked in it
    spc,             \* position of every thread inside a semaphore method
    sop,             \* the method every thread called last
    sres,            \* the wxSemaError the last finished call returned
    s_err,           \* what the native condition wait of a thread returned
    s_ms,            \* WaitTimeout: the argument milliseconds
    s_start,         \* WaitTimeout: the local startTime
    s_rem,           \* WaitTimeout: the local remainingTime
    s_deadline,      \* wxConditionInternal::WaitTimeout: the local tspec
    clock,           \* the wall clock, in milliseconds
    posts_ok,        \* number of Post() calls that returned NO_ERROR (history)
    waits_ok,        \* number of waits that returned NO_ERROR (history)
    since,           \* successful posts since the last successful wait (history)
    scalls,          \* number of calls made so far (history)
    s_maxarg,        \* the maxcount the semaphore was constructed with
    s_isOk,          \* wxSemaphoreInternal::m_isOk
    s_built          \* the constructor has run

ssem == <<m_count, m_maxcount, s_init, s_mutex, s_cond>>
sthr == <<spc, sop, sres, s_err>>
stime == <<s_ms, s_start, s_rem, s_deadline>>
shist == <<posts_ok, waits_ok, since, scalls>>
sctor == <<s_maxarg, s_isOk, s_built>>
svars == <<ssem, sthr, stime, clock, shist, sctor>>

\* one wxThread object, its OS threads and the threads that call its methods
VARIABLES
    t_isDetached,    \* wxThread::m_isDetached
    alive,           \* the wxThread object has not been destroyed
    m_state,         \* wxThreadInternal::m_state
    m_created,       \* wxThreadInternal::m_created
    m_cancelled,     \* wxThreadInternal::m_cancelled
    m_isPaused,      \* wxThreadInternal::m_isPaused
    m_exitcode,      \* wxThreadInternal::m_exitcode
    m_shouldBeJoined,\* wxThreadInternal::m_shouldBeJoined
    m_threadId,      \* wxThreadInternal::m_threadId, 0 before pthread_create
    m_critsect,      \* wxThread::m_critsect: its holder, 0 when free
    m_csJoinFlag,    \* wxThreadInternal::m_csJoinFlag: its holder, 0 when free
    m_semRun,        \* wxThreadInternal::m_semRun: its count
    m_semSuspend,    \* wxThreadInternal::m_semSuspend: its count
    os_pc,           \* position of every OS thread inside PthreadStart
    os_dontRunAtAll, \* PthreadStart: the local dontRunAtAll
    os_status,       \* the value every OS thread terminated with
    os_joined,       \* the OS threads a pthread_join has returned for
    cpc,             \* position of every calling thread inside a wxThread method
    cop,             \* the method every calling thread called last
    cres,            \* the wxThreadError the last finished call returned
    c_state,         \* Delete: the local state
    c_id,            \* wxThreadInternal::Wait: the GetId() passed to pthread_join
    c_rc,            \* the exit codes the last Wait() / Delete(rc) handed back
    returned,        \* all exit codes handed back so far (history)
    entryCalls,      \* number of calls of the user's Entry() (history)
    runCalls,        \* number of wxThreadInternal::Run() executed (history)
    joinCalls,       \* number of pthread_join calls made (history)
    sawNew,          \* a Delete() has observed STATE_NEW (history)
    tcalls,          \* number of method calls made so far (history)
    killed           \* a Kill() has returned wxTHREAD_NO_ERROR (history)

tobj == <<t_isDetached, alive, m_state, m_created, m_cancelled, m_isPaused,
          m_exitcode, m_shouldBeJoined, m_threadId, m_semRun, m_semSuspend>>
tlocks == <<m_critsect, m_csJoinFlag>>
tos == <<os_pc, os_dontRunAtAll, os_status, os_joined>>
tcl == <<cpc, cop, cres, c_state, c_id, c_rc>>
thist == <<returned, entryCalls, runCalls, joinCalls, sawNew, tcalls,
           killed>>
tvars == <<tobj, tlocks, tos, tcl, thist>>

\* what all threads of the program share
VARIABLES
    gs_mutexGui,             \* gs_mutexGui: the threads that hold it
    gs_nThreadsBeingDeleted, \* gs_nThreadsBeingDeleted
    gs_condAllDeleted,       \* gs_condAllDeleted: the threads that wait on it
    gs_allThreads,           \* gs_allThreads: the registered thread objects
    os_cancel,               \* the OS threads pthread_cancel was called for
    wxHAVE_PTHREAD_CLEANUP   \* the build has pthread_cleanup_push / pop

tglob == <<gs_mutexGui, gs_nThreadsBeingDeleted, gs_condAllDeleted,
           gs_allThreads, os_cancel, wxHAVE_PTHREAD_CLEANUP>>

\* the scheduling attribute wxThreadInternal::Create sets up
VARIABLES
    m_prio,          \* wxThreadInternal::m_prio, in wxWidgets units
    min_prio,        \* Create: sched_get_priority_min(policy)
    max_prio,        \* Create: sched_get_priority_max(policy)
    sched_priority,  \* Create: sp.sched_priority as given to the attribute
    sp_set,          \* Create: pthread_attr_setschedparam was called
    attr_done        \* the attribute has been set up

attrv == <<m_prio, min_prio, max_prio, sched_priority, sp_set, attr_done>>

\* the deadline wxMutexInternal::Lock(ms) hands to pthread_mutex_timedlock
VARIABLES
    l_ms,            \* Lock(ms): the argument
    tv_ok,           \* Lock(ms): wxGetTimeOfDay(&tv) != -1
    tv_sec,          \* the time of day, seconds
    tv_usec,         \* the time of day, microseconds
    ts_sec,          \* Lock(ms): ts.tv_sec
    ts_nsec,         \* Lock(ms): ts.tv_nsec
    ts_done          \* the deadline has been computed

tsv == <<l_ms, tv_ok, tv_sec, tv_usec, ts_sec, ts_nsec, ts_done>>

cvars == <<attrv, tsv>>

vars == <<mvars, svars, tvars, tglob, cvars>>

\* a step of one part leaves the other parts alone
OnlyMutex == UNCHANGED <<svars, tvars, tglob, cvars>>
OnlySema == UNCHANGED <<mvars, tvars, tglob, sctor, cvars>>
OnlyThread == UNCHANGED <<mvars, svars, tglob, cvars>>
\* a step of the thread part that changes what the threads share
OnlyThreads == UNCHANGED <<mvars, svars, cvars>>

(***************************************************************************)
(* Part 1: wxMutexInternal                                                 *)
(***************************************************************************)

\* number of threads that share the mutex
NumMutexThreads == 2
\* deepest nesting of a recursive native lock that is explored
MaxDepth == 2
\* longest sequence of mutex calls that is explored
MaxMutexCalls == 6

MutexThreads == 1..NumMutexThreads
\* the one thread of the single-threaded sequences
SoleThread == {1}

MutexInit ==
    /\ m_type \in {"wxMUTEX_DEFAULT", "wxMUTEX_RECURSIVE"}
    /\ m_mutex = 0
    /\ m_lockDepth = 0
    /\ m_owningThread = 0
    /\ mpc = [t \in MutexThreads |-> "idle"]
    /\ mop = [t \in MutexThreads |-> "none"]
    /\ mres = [t \in MutexThreads |-> "none"]
    /\ mcalls = 0

\* HandleLockResult, case 0 (also the case 0 of TryLock): what is stored in
\* m_owningThread when thread t has just acquired the native mutex.
\* HandleLockResult_NoOwner is the faulty variant that never records it.
HandleLockResult_NoOwner(t) == m_owningThread
HandleLockResult(t) ==
    IF m_type = "wxMUTEX_DEFAULT" THEN t ELSE m_owningThread

\* the value Unlock() stores in m_owningThread before the native unlock
\* (Unlock_Owner_Keep: the faulty variant that leaves the owner in place)
Unlock_Owner_Keep == m_owningThread
Unlock_Owner == 0

\* Lock(): the owner test, then either DEAD_LOCK or the native lock
Lock_Call(t) ==
    /\ mpc[t] = "idle"
    /\ mcalls < MaxMutexCalls
    /\ mcalls' = mcalls + 1
    /\ mop' = [mop EXCEPT ![t] = "Lock"]
    /\ IF m_type = "wxMUTEX_DEFAULT" /\ m_owningThread # 0 /\ m_owningThread = t
       THEN /\ mres' = [mres EXCEPT ![t] = "wxMUTEX_DEAD_LOCK"]
            /\ UNCHANGED mpc
       ELSE /\ mpc' = [mpc EXCEPT ![t] = "lock_native"]
            /\ mres' = [mres EXCEPT ![t] = "none"]
    /\ UNCHANGED <<m_type, m_mutex, m_lockDepth, m_owningThread>>
    /\ OnlyMutex

\* Lock(ms): no owner test, straight to pthread_mutex_timedlock
LockTimeout_Call(t) ==
    /\ mpc[t] = "idle"
    /\ mcalls < MaxMutexCalls
    /\ mcalls' = mcalls + 1
    /\ mop' = [mop EXCEPT ![t] = "LockTimeout"]
    /\ mpc' = [mpc EXCEPT ![t] = "timed_native"]
    /\ mres' = [mres EXCEPT ![t] = "none"]
    /\ UNCHANGED <<m_type, m_mutex, m_lockDepth, m_owningThread>>
    /\ OnlyMutex

\* the native mutex can be taken by t: it is free, or recursive and t's own
NativeAvailable(t) ==
    \/ m_mutex = 0
    \/ m_type = "wxMUTEX_RECURSIVE" /\ m_mutex = t /\ m_lockDepth < MaxDepth

\* pthread_mutex_lock / pthread_mutex_timedlock return 0
NativeLock_Acquire(t) ==
    /\ mpc[t] \in {"lock_native", "timed_native"}
    /\ NativeAvailable(t)
    /\ m_mutex' = t
    /\ m_lockDepth' = m_lockDepth + 1
    /\ mpc' = [mpc EXCEPT ![t] = "handle_0"]
    /\ UNCHANGED <<m_type, m_owningThread, mres, mop, mcalls>>
    /\ OnlyMutex

\* pthread_mutex_timedlock returns ETIMEDOUT: HandleLockResult -> TIMEOUT
NativeLock_Timeout(t) ==
    /\ mpc[t] = "timed_native"
    /\ m_mutex # 0
    /\ mpc' = [mpc EXCEPT ![t] = "idle"]
    /\ mres' = [mres EXCEPT ![t] = "wxMUTEX_TIMEOUT"]
    /\ UNCHANGED <<m_type, m_mutex, m_lockDepth, m_owningThread, mop, mcalls>>
    /\ OnlyMutex

\* relocking a PTHREAD_MUTEX_DEFAULT mutex by its holder is undefined: the
\* native call either never returns (no action) or returns EDEADLK
NativeLock_EDEADLK(t) ==
    /\ mpc[t] \in {"lock_native", "timed_native"}
    /\ m_type = "wxMUTEX_DEFAULT"
    /\ m_mutex = t
    /\ mpc' = [mpc EXCEPT ![t] = "idle"]
    /\ mres' = [mres EXCEPT ![t] = "wxMUTEX_DEAD_LOCK"]
    /\ UNCHANGED <<m_type, m_mutex, m_lockDepth, m_owningThread, mop, mcalls>>
    /\ OnlyMutex

\* HandleLockResult(0): record the owner, return NO_ERROR
HandleLockResult_Ok(t) ==
    /\ mpc[t] = "handle_0"
    /\ m_owningThread' = HandleLockResult(t)
    /\ mpc' = [mpc EXCEPT ![t] = "idle"]
    /\ mres' = [mres EXCEPT ![t] = "wxMUTEX_NO_ERROR"]
    /\ UNCHANGED <<m_type, m_mutex, m_lockDepth, mop, mcalls>>
    /\ OnlyMutex

\* TryLock(): pthread_mutex_trylock returns 0 or EBUSY
TryLock_Call(t) ==
    /\ mpc[t] = "idle"
    /\ mcalls < MaxMutexCalls
    /\ mcalls' = mcalls + 1
    /\ mop' = [mop EXCEPT ![t] = "TryLock"]
    /\ IF NativeAvailable(t)
       THEN /\ m_mutex' = t
            /\ m_lockDepth' = m_lockDepth + 1
            /\ mpc' = [mpc EXCEPT ![t] = "try_0"]
            /\ mres' = [mres EXCEPT ![t] = "none"]
       ELSE /\ mres' = [mres EXCEPT ![t] = "wxMUTEX_BUSY"]
            /\ UNCHANGED <<m_mutex, m_lockDepth, mpc>>
    /\ UNCHANGED <<m_type, m_owningThread>>
    /\ OnlyMutex

\* TryLock(), case 0: what is stored in m_owningThread
\* (TryLock_Owner_AnyType: the faulty variant that ignores the type)
TryLock_Owner_AnyType(t) == t
TryLock_Owner(t) ==
    IF m_type = "wxMUTEX_DEFAULT" THEN t ELSE m_owningThread

\* TryLock(), case 0: record the owner, return NO_ERROR
TryLock_Ok(t) ==
    /\ mpc[t] = "try_0"
    /\ m_owningThread' = TryLock_Owner(t)
    /\ mpc' = [mpc EXCEPT ![t] = "idle"]
    /\ mres' = [mres EXCEPT ![t] = "wxMUTEX_NO_ERROR"]
    /\ UNCHANGED <<m_type, m_mutex, m_lockDepth, mop, mcalls>>
    /\ OnlyMutex

\* Unlock(): m_owningThread = 0 comes first, whoever the caller is
Unlock_Call(t) ==
    /\ mpc[t] = "idle"
    /\ mcalls < MaxMutexCalls
    /\ mcalls' = mcalls + 1
    /\ mop' = [mop EXCEPT ![t] = "Unlock"]
    /\ m_owningThread' = Unlock_Owner
    /\ mpc' = [mpc EXCEPT ![t] = "unlock_native"]
    /\ mres' = [mres EXCEPT ![t] = "none"]
    /\ UNCHANGED <<m_type, m_mutex, m_lockDepth>>
    /\ OnlyMutex

\* pthread_mutex_unlock by the holder returns 0
NativeUnlock_Ok(t) ==
    /\ mpc[t] = "unlock_native"
    /\ m_mutex = t
    /\ m_lockDepth' = m_lockDepth - 1
    /\ m_mutex' = IF m_lockDepth = 1 THEN 0 ELSE t
    /\ mpc' = [mpc EXCEPT ![t] = "idle"]
    /\ mres' = [mres EXCEPT ![t] = "wxMUTEX_NO_ERROR"]
    /\ UNCHANGED <<m_type, m_owningThread, mop, mcalls>>
    /\ OnlyMutex

\* pthread_mutex_unlock by a thread that does not hold the mutex returns
\* EPERM (always so for a recursive mutex): Unlock() returns UNLOCKED
NativeUnlock_EPERM(t) ==
    /\ mpc[t] = "unlock_native"
    /\ m_mutex # t
    /\ mpc' = [mpc EXCEPT ![t] = "idle"]
    /\ mres' = [mres EXCEPT ![t] = "wxMUTEX_UNLOCKED"]
    /\ UNCHANGED <<m_type, m_mutex, m_lockDepth, m_owningThread, mop, mcalls>>
    /\ OnlyMutex

\* ... or, undefined for PTHREAD_MUTEX_DEFAULT, it returns 0 and the mutex is
\* released whoever held it
NativeUnlock_Foreign(t) ==
    /\ mpc[t] = "unlock_native"
    /\ m_type = "wxMUTEX_DEFAULT"
    /\ m_mutex # t
    /\ m_mutex' = 0
    /\ m_lockDepth' = 0
    /\ mpc' = [mpc EXCEPT ![t] = "idle"]
    /\ mres' = [mres EXCEPT ![t] = "wxMUTEX_NO_ERROR"]
    /\ UNCHANGED <<m_type, m_owningThread, mop, mcalls>>
    /\ OnlyMutex

\* pthread_mutex_unlock returns an error other than EPERM (EINVAL or any
\* other): Unlock() returns MISC_ERROR
NativeUnlock_Error(t) ==
    /\ mpc[t] = "unlock_native"
    /\ mpc' = [mpc EXCEPT ![t] = "idle"]
    /\ mres' = [mres EXCEPT ![t] = "wxMUTEX_MISC_ERROR"]
    /\ UNCHANGED <<m_type, m_mutex, m_lockDepth, m_owningThread, mop, mcalls>>
    /\ OnlyMutex

\* one step of thread t on the mutex
MutexStep(t) ==
    \/ Lock_Call(t)
    \/ LockTimeout_Call(t)
    \/ NativeLock_Acquire(t)
    \/ NativeLock_Timeout(t)
    \/ NativeLock_EDEADLK(t)
    \/ HandleLockResult_Ok(t)
    \/ TryLock_Call(t)
    \/ TryLock_Ok(t)
    \/ Unlock_Call(t)
    \/ NativeUnlock_Ok(t)
    \/ NativeUnlock_EPERM(t)
    \/ NativeUnlock_Foreign(t)

(***************************************************************************)
(* Part 2: wxConditionInternal and wxSemaphoreInternal                     *)
(*                                                                         *)
(* The semaphore's own m_mutex is taken and released by the wxMutexLocker  *)
(* of every method; no method nests two lockers, so only the holder of the *)
(* native mutex is kept.  pthread_cond_wait releases the mutex and blocks  *)
(* in one step; a woken thread has to take the mutex again before the wait *)
(* returns.  POSIX allows a condition wait to return spuriously.           *)
(***************************************************************************)

\* number of threads that share the semaphore
NumSemThreads == 3
NumTimedThreads == 2
MaxTimedCalls == 3
\* largest maxcount a semaphore is constructed with
MaxMaxCount == 1
\* longest sequence of semaphore calls that is explored
MaxSemCalls == 4
\* largest WaitTimeout argument, in milliseconds
MaxMs == 1
\* last reading of the clock, in milliseconds
MaxClock == 1

SemThreads == 1..NumSemThreads

\* the constructor arguments for which the constructor stores the counts
\* (initialcount >= 0, maxcount >= 0, initialcount <= maxcount if bounded)
SemaInit ==
    /\ m_maxcount \in 0..MaxMaxCount
    /\ m_count \in 0..MaxMaxCount
    /\ m_maxcount > 0 => m_count <= m_maxcount
    /\ s_init = m_count
    /\ s_maxarg = m_maxcount
    /\ s_isOk = TRUE
    /\ s_built = TRUE
    /\ s_mutex = 0
    /\ s_cond = {}
    /\ spc = [t \in SemThreads |-> "idle"]
    /\ sop = [t \in SemThreads |-> "none"]
    /\ sres = [t \in SemThreads |-> "none"]
    /\ s_err = [t \in SemThreads |-> 0]
    /\ s_ms = [t \in SemThreads |-> 0]
    /\ s_start = [t \in SemThreads |-> 0]
    /\ s_rem = [t \in SemThreads |-> 0]
    /\ s_deadline = [t \in SemThreads |-> 0]
    /\ clock = 0
    /\ posts_ok = 0
    /\ waits_ok = 0
    /\ since = 0
    /\ scalls = 0

\* the memory of a semaphore before its constructor runs: the members hold
\* any value, the arguments are any int (negative ones included)
SemaNew ==
    /\ s_init \in -1..(MaxMaxCount + 1)
    /\ s_maxarg \in -1..(MaxMaxCount + 1)
    /\ m_count \in 0..(MaxMaxCount + 1)
    /\ m_maxcount \in 0..(MaxMaxCount + 1)
    /\ s_isOk \in BOOLEAN
    /\ s_built = FALSE
    /\ s_mutex = 0
    /\ s_cond = {}
    /\ spc = [t \in SemThreads |-> "idle"]
    /\ sop = [t \in SemThreads |-> "none"]
    /\ sres = [t \in SemThreads |-> "none"]
    /\ s_err = [t \in SemThreads |-> 0]
    /\ s_ms = [t \in SemThreads |-> 0]
    /\ s_start = [t \in SemThreads |-> 0]
    /\ s_rem = [t \in SemThreads |-> 0]
    /\ s_deadline = [t \in SemThreads |-> 0]
    /\ clock = 0
    /\ posts_ok = 0
    /\ waits_ok = 0
    /\ since = 0
    /\ scalls = 0

\* the test of the constructor arguments
Ctor_BadArgs(initialcount, maxcount) ==
    (initialcount < 0 \/ maxcount < 0)
        \/ (maxcount > 0 /\ initialcount > maxcount)

\* the value the constructor leaves in m_isOk: the assignment of false for
\* bad arguments is followed by m_isOk = m_mutex.IsOk() && m_cond.IsOk()
Ctor_IsOk(initialcount, maxcount, mutexOk, condOk) == mutexOk /\ condOk

\* wxSemaphoreInternal::wxSemaphoreInternal(initialcount, maxcount); the
\* native mutex and condition may or may not have been initialised; the
\* casts to size_t are applied to values that are not negative
Sema_Ctor ==
    /\ ~s_built
    /\ s_built' = TRUE
    /\ IF Ctor_BadArgs(s_init, s_maxarg)
       THEN UNCHANGED <<m_count, m_maxcount>>
       ELSE /\ m_maxcount' = s_maxarg
            /\ m_count' = s_init
    /\ \E mutexOk, condOk \in BOOLEAN :
          s_isOk' = Ctor_IsOk(s_init, s_maxarg, mutexOk, condOk)
    /\ UNCHANGED <<s_init, s_maxarg, s_mutex, s_cond, sthr, stime, clock,
                   shist>>
    /\ UNCHANGED <<mvars, tvars, tglob, cvars>>

\* the loop test of Wait / WaitTimeout and the test of TryWait
\* (Wait_Empty_Never: the faulty variant that takes from an empty semaphore)
Wait_Empty_Never == FALSE
Wait_Empty == m_count = 0

\* m_count-- of Wait / TryWait / WaitTimeout
\* (Wait_Count_Keep: the faulty variant that consumes nothing)
Wait_Count_Keep == m_count
Wait_Count == m_count - 1

\* the test of Post (faulty variants: Post_Overflow_Never has no test,
\* Post_Overflow_Above is off by one)
Post_Overflow_Never == FALSE
Post_Overflow_Above == m_maxcount > 0 /\ m_count > m_maxcount
Post_Overflow == m_maxcount > 0 /\ m_count = m_maxcount

\* m_count++ of Post
Post_Count == m_count + 1

\* pthread_cond_signal: the sets of threads it may take out of the wait
\* (Signal_Nobody: the faulty variant that wakes no waiter)
Signal_Nobody(waiters) == {{}}
Signal(waiters) ==
    IF waiters = {} THEN {{}} ELSE {{w} : w \in waiters}

\* WaitTimeout: remainingTime = milliseconds - (wxGetLocalTimeMillis() - startTime)
\* (RemainingTime_Full: the faulty variant that waits the full time again)
RemainingTime_Full(t) == s_ms[t]
RemainingTime(t) == s_ms[t] - (clock - s_start[t])

\* a method is entered: its wxMutexLocker is about to lock m_mutex
Sem_Enter(t, op, ms) ==
    /\ spc[t] = "idle"
    /\ scalls < MaxSemCalls
    /\ scalls' = scalls + 1
    /\ spc' = [spc EXCEPT ![t] = "lock"]
    /\ sop' = [sop EXCEPT ![t] = op]
    /\ sres' = [sres EXCEPT ![t] = "none"]
    /\ s_ms' = [s_ms EXCEPT ![t] = ms]
    /\ UNCHANGED <<ssem, s_err, s_start, s_rem, s_deadline, clock,
                   posts_ok, waits_ok, since>>
    /\ OnlySema

Wait_Call(t) == Sem_Enter(t, "Wait", 0)
TryWait_Call(t) == Sem_Enter(t, "TryWait", 0)
WaitTimeout_Call(t) == \E ms \in 0..MaxMs : Sem_Enter(t, "WaitTimeout", ms)
Post_Call(t) == Sem_Enter(t, "Post", 0)

\* wxMutexLocker locker(m_mutex); WaitTimeout then reads startTime
Sem_Lock(t) ==
    /\ spc[t] = "lock"
    /\ s_mutex = 0
    /\ s_mutex' = t
    /\ spc' = [spc EXCEPT ![t] = "test"]
    /\ s_start' = [s_start EXCEPT ![t] =
                      IF sop[t] = "WaitTimeout" THEN clock ELSE 0]
    /\ UNCHANGED <<m_count, m_maxcount, s_init, s_cond, sop, sres, s_err,
                   s_ms, s_rem, s_deadline, clock, shist>>
    /\ OnlySema

\* Wait: while ( m_count == 0 )
Wait_Test(t) ==
    /\ spc[t] = "test" /\ sop[t] = "Wait"
    /\ spc' = [spc EXCEPT ![t] = IF Wait_Empty THEN "condwait" ELSE "dec"]
    /\ UNCHANGED <<ssem, sop, sres, s_err, stime, clock, shist>>
    /\ OnlySema

\* TryWait: if ( m_count == 0 ) return wxSEMA_BUSY
TryWait_Test(t) ==
    /\ spc[t] = "test" /\ sop[t] = "TryWait"
    /\ IF Wait_Empty
       THEN /\ spc' = [spc EXCEPT ![t] = "unlock"]
            /\ sres' = [sres EXCEPT ![t] = "wxSEMA_BUSY"]
       ELSE /\ spc' = [spc EXCEPT ![t] = "dec"]
            /\ UNCHANGED sres
    /\ UNCHANGED <<ssem, sop, s_err, stime, clock, shist>>
    /\ OnlySema

\* WaitTimeout: while ( m_count == 0 ) { remainingTime ...; if ( <= 0 ) TIMEOUT
WaitTimeout_Test(t) ==
    /\ spc[t] = "test" /\ sop[t] = "WaitTimeout"
    /\ IF Wait_Empty
       THEN IF RemainingTime(t) <= 0
            THEN /\ spc' = [spc EXCEPT ![t] = "unlock"]
                 /\ sres' = [sres EXCEPT ![t] = "wxSEMA_TIMEOUT"]
                 /\ UNCHANGED s_rem
            ELSE /\ spc' = [spc EXCEPT ![t] = "condwait"]
                 /\ s_rem' = [s_rem EXCEPT ![t] = RemainingTime(t)]
                 /\ UNCHANGED sres
       ELSE /\ spc' = [spc EXCEPT ![t] = "dec"]
            /\ UNCHANGED <<sres, s_rem>>
    /\ UNCHANGED <<ssem, sop, s_err, s_ms, s_start, s_deadline, clock, shist>>
    /\ OnlySema

\* wxConditionInternal::Wait: pthread_cond_wait releases the mutex and blocks
Cond_Wait(t) ==
    /\ spc[t] = "condwait" /\ sop[t] = "Wait"
    /\ s_mutex' = 0
    /\ s_cond' = s_cond \cup {t}
    /\ spc' = [spc EXCEPT ![t] = "blocked"]
    /\ UNCHANGED <<m_count, m_maxcount, s_init, sop, sres, s_err, stime,
                   clock, shist>>
    /\ OnlySema

\* wxConditionInternal::WaitTimeout: the deadline is now + milliseconds, then
\* pthread_cond_timedwait releases the mutex and blocks
Cond_WaitTimeout(t) ==
    /\ spc[t] = "condwait" /\ sop[t] = "WaitTimeout"
    /\ s_deadline' = [s_deadline EXCEPT ![t] = clock + s_rem[t]]
    /\ s_rem' = [s_rem EXCEPT ![t] = 0]
    /\ s_mutex' = 0
    /\ s_cond' = s_cond \cup {t}
    /\ spc' = [spc EXCEPT ![t] = "blocked"]
    /\ UNCHANGED <<m_count, m_maxcount, s_init, sop, sres, s_err, s_ms,
                   s_start, clock, shist>>
    /\ OnlySema

\* the native condition wait fails with another error than ETIMEDOUT and
\* returns with the mutex held: Wait / WaitTimeout return wxSEMA_MISC_ERROR
Cond_Error(t) ==
    /\ spc[t] = "condwait"
    /\ spc' = [spc EXCEPT ![t] = "unlock"]
    /\ sres' = [sres EXCEPT ![t] = "wxSEMA_MISC_ERROR"]
    /\ UNCHANGED <<ssem, sop, s_err, stime, clock, shist>>
    /\ OnlySema

\* a condition wait ends without a signal (allowed by POSIX): err = 0
Cond_Spurious(t) ==
    /\ t \in s_cond
    /\ s_cond' = s_cond \ {t}
    /\ spc' = [spc EXCEPT ![t] = "woken"]
    /\ s_err' = [s_err EXCEPT ![t] = 0]
    /\ s_deadline' = [s_deadline EXCEPT ![t] = 0]
    /\ UNCHANGED <<m_count, m_maxcount, s_init, s_mutex, sop, sres, s_ms,
                   s_start, s_rem, clock, shist>>
    /\ OnlySema

\* pthread_cond_timedwait reaches its deadline: err = ETIMEDOUT
Cond_TimedOut(t) ==
    /\ t \in s_cond
    /\ sop[t] = "WaitTimeout"
    /\ clock >= s_deadline[t]
    /\ s_cond' = s_cond \ {t}
    /\ spc' = [spc EXCEPT ![t] = "woken"]
    /\ s_err' = [s_err EXCEPT ![t] = 1]
    /\ s_deadline' = [s_deadline EXCEPT ![t] = 0]
    /\ UNCHANGED <<m_count, m_maxcount, s_init, s_mutex, sop, sres, s_ms,
                   s_start, s_rem, clock, shist>>
    /\ OnlySema

\* the condition wait takes the mutex again and returns: NO_ERROR goes back
\* to the loop test, wxCOND_TIMEOUT makes WaitTimeout return wxSEMA_TIMEOUT
Cond_Return(t) ==
    /\ spc[t] = "woken"
    /\ s_mutex = 0
    /\ s_mutex' = t
    /\ IF s_err[t] = 0
       THEN /\ spc' = [spc EXCEPT ![t] = "test"]
            /\ UNCHANGED sres
       ELSE /\ spc' = [spc EXCEPT ![t] = "unlock"]
            /\ sres' = [sres EXCEPT ![t] = "wxSEMA_TIMEOUT"]
    /\ s_err' = [s_err EXCEPT ![t] = 0]
    /\ UNCHANGED <<m_count, m_maxcount, s_init, s_cond, sop, stime, clock,
                   shist>>
    /\ OnlySema

\* m_count--; return wxSEMA_NO_ERROR
Sem_Decrement(t) ==
    /\ spc[t] = "dec"
    /\ m_count' = Wait_Count
    /\ spc' = [spc EXCEPT ![t] = "unlock"]
    /\ sres' = [sres EXCEPT ![t] = "wxSEMA_NO_ERROR"]
    /\ waits_ok' = waits_ok + 1
    /\ since' = 0
    /\ UNCHANGED <<m_maxcount, s_init, s_mutex, s_cond, sop, s_err, stime,
                   clock, posts_ok, scalls>>
    /\ OnlySema

\* Post: the overflow test, then m_count++
Post_Test(t) ==
    /\ spc[t] = "test" /\ sop[t] = "Post"
    /\ IF Post_Overflow
       THEN /\ spc' = [spc EXCEPT ![t] = "unlock"]
            /\ sres' = [sres EXCEPT ![t] = "wxSEMA_OVERFLOW"]
            /\ UNCHANGED m_count
       ELSE /\ spc' = [spc EXCEPT ![t] = "signal"]
            /\ m_count' = Post_Count
            /\ UNCHANGED sres
    /\ UNCHANGED <<m_maxcount, s_init, s_mutex, s_cond, sop, s_err, stime,
                   clock, shist>>
    /\ OnlySema

\* Post: return m_cond.Signal() == wxCOND_NO_ERROR ? NO_ERROR : MISC_ERROR
\* (pthread_cond_signal on an initialised condition returns 0)
Post_Signal(t) ==
    /\ spc[t] = "signal"
    /\ \E W \in Signal(s_cond) :
          /\ s_cond' = s_cond \ W
          /\ spc' = [u \in SemThreads |->
                       IF u = t THEN "unlock"
                       ELSE IF u \in W THEN "woken" ELSE spc[u]]
          /\ s_err' = [u \in SemThreads |-> IF u \in W THEN 0 ELSE s_err[u]]
          /\ s_deadline' = [u \in SemThreads |->
                              IF u \in W THEN 0 ELSE s_deadline[u]]
    /\ sres' = [sres EXCEPT ![t] = "wxSEMA_NO_ERROR"]
    /\ posts_ok' = posts_ok + 1
    /\ since' = since + 1
    /\ UNCHANGED <<m_count, m_maxcount, s_init, s_mutex, sop, s_ms, s_start,
                   s_rem, clock, waits_ok, scalls>>
    /\ OnlySema

\* ~wxMutexLocker runs on every return path: the holder of m_mutex afterwards
\* (Locker_Unlock_OnSuccess: the faulty variant whose error returns keep it)
Locker_Unlock_OnSuccess(t) ==
    IF sres[t] = "wxSEMA_NO_ERROR" THEN 0 ELSE s_mutex
Locker_Unlock(t) == 0

\* ~wxMutexLocker: the method returns and its locals are gone
Sem_Unlock(t) ==
    /\ spc[t] = "unlock"
    /\ s_mutex' = Locker_Unlock(t)
    /\ spc' = [spc EXCEPT ![t] = "idle"]
    /\ sop' = [sop EXCEPT ![t] = "none"]
    /\ sres' = [sres EXCEPT ![t] = "none"]
    /\ s_ms' = [s_ms EXCEPT ![t] = 0]
    /\ s_start' = [s_start EXCEPT ![t] = 0]
    /\ s_rem' = [s_rem EXCEPT ![t] = 0]
    /\ s_deadline' = [s_deadline EXCEPT ![t] = 0]
    /\ UNCHANGED <<m_count, m_maxcount, s_init, s_cond, s_err, clock, shist>>
    /\ OnlySema

\* a millisecond passes
Tick ==
    /\ clock < MaxClock
    /\ clock' = clock + 1
    /\ UNCHANGED <<ssem, sthr, stime, shist>>
    /\ OnlySema

\* all threads are outside the semaphore's methods
SemQuiet == \A t \in SemThreads : spc[t] = "idle"

(***************************************************************************)
(* Part 3: wxThread and wxThreadInternal                                   *)
(*                                                                         *)
(* One wxThread object.  Callers are the threads of the program that call  *)
(* its methods; OS threads are what pthread_create starts, each running    *)
(* PthreadStart.  A lock is held by a caller c (as c) or by OS thread i    *)
(* (as -i).  m_semRun and m_semSuspend are semaphores of Part 2, used here *)
(* through their counts.  Once the object is destroyed its memory is       *)
(* freed: a later read of a member yields any value and a later lock of    *)
(* one of its critical sections may succeed whoever holds it.              *)
(***************************************************************************)

\* number of threads that call the methods of the wxThread object
NumCallers == 2
\* number of OS threads pthread_create can start before it fails
MaxSpawn == 2
\* longest sequence of method calls that is explored
MaxThreadCalls == 4
\* the values the user's Entry() returns are 1..MaxEntryValue
MaxEntryValue == 1
\* maxcount of m_semRun and m_semSuspend: both gates are semaphores
\* constructed with (0, 1)
GateMax == 1
\* the exit code of a thread that was cancelled before it ran
EXITCODE_CANCELLED == -1

Callers == 1..NumCallers
\* the caller that ran wxThreadModule::OnInit: the main thread
MainThread == 1
\* wxThread::IsMain
\* (IsMain_Never: the faulty variant that takes no thread for the main one)
IsMain_Never(c) == FALSE
IsMain(c) == c = MainThread
OsIds == 1..MaxSpawn
EntryValues == 1..MaxEntryValue
ExitCodes == {EXITCODE_CANCELLED, 0} \cup EntryValues
ThreadStates == {"STATE_NEW", "STATE_RUNNING", "STATE_PAUSED", "STATE_EXITED"}

\* wxThread::wxThread(kind) and wxThreadInternal::wxThreadInternal(), after
\* wxThreadModule::OnInit, where the main thread locked gs_mutexGui
ThreadInit ==
    /\ t_isDetached \in BOOLEAN
    /\ alive = TRUE
    /\ m_state = "STATE_NEW"
    /\ m_created = FALSE
    /\ m_cancelled = FALSE
    /\ m_isPaused = FALSE
    /\ m_exitcode = 0
    /\ m_shouldBeJoined = TRUE
    /\ m_threadId = 0
    /\ m_critsect = 0
    /\ m_csJoinFlag = 0
    /\ m_semRun = 0
    /\ m_semSuspend = 0
    /\ os_pc = [i \in OsIds |-> "none"]
    /\ os_dontRunAtAll = [i \in OsIds |-> FALSE]
    /\ os_status = [i \in OsIds |-> 0]
    /\ os_joined = {}
    /\ cpc = [c \in Callers |-> "idle"]
    /\ cop = [c \in Callers |-> "none"]
    /\ cres = [c \in Callers |-> "none"]
    /\ c_state = [c \in Callers |-> "none"]
    /\ c_id = [c \in Callers |-> 0]
    /\ c_rc = [c \in Callers |-> {}]
    /\ returned = {}
    /\ entryCalls = 0
    /\ runCalls = 0
    /\ joinCalls = 0
    /\ sawNew = FALSE
    /\ tcalls = 0
    /\ killed = FALSE
    /\ gs_mutexGui = {MainThread}
    /\ gs_nThreadsBeingDeleted = 0
    /\ gs_condAllDeleted = {}
    /\ gs_allThreads = {"thread"}
    /\ os_cancel = {}
    /\ wxHAVE_PTHREAD_CLEANUP \in BOOLEAN

\* the values a read of a member yields: the member, or anything once the
\* object has been destroyed
Read(member, domain) == IF alive THEN {member} ELSE domain

\* wxThread::~wxThread: gs_allThreads.Remove(this) under gs_mutexAllThreads
\* (Registry_Remove_Never: the faulty variant that leaves the entry)
Registry_Remove_Never(registry) == registry
Registry_Remove(registry) == registry \ {"thread"}

\* a critical section of the object can be entered
CanEnter(lock) == lock = 0 \/ ~alive

\* wxSemaphoreInternal::Post on a gate: the count afterwards
GatePost(count) == IF GateMax > 0 /\ count = GateMax THEN count ELSE count + 1

\* PthreadStart: dontRunAtAll
\* (DontRunAtAll_Cancelled: the faulty variant that does not test the state)
DontRunAtAll_Cancelled(state, cancelled) == cancelled
DontRunAtAll(state, cancelled) == state = "STATE_NEW" /\ cancelled

\* a caller enters a method
Call(c, op, pc) ==
    /\ cpc[c] = "idle"
    /\ tcalls < MaxThreadCalls
    /\ alive \/ ~t_isDetached
    /\ tcalls' = tcalls + 1
    /\ cpc' = [cpc EXCEPT ![c] = pc]
    /\ cop' = [cop EXCEPT ![c] = op]
    /\ cres' = [cres EXCEPT ![c] = "none"]
    /\ c_rc' = [c_rc EXCEPT ![c] = {}]
    /\ UNCHANGED <<tobj, tlocks, tos, c_state, c_id, returned, entryCalls,
                   runCalls, joinCalls, sawNew, killed>>
    /\ OnlyThread

\* where a caller is after the method returned: wxThreadModule::OnExit goes
\* on after the Delete() it called
AfterReturn(c) == IF cop[c] = "OnExit" THEN "cleanup" ELSE "idle"

\* a caller returns err from the method it is in
Return(c, err) ==
    /\ cpc' = [cpc EXCEPT ![c] = AfterReturn(c)]
    /\ cres' = [cres EXCEPT ![c] = err]

Create_Call(c) == Call(c, "Create", "enter")
Run_Call(c) == Call(c, "Run", "enter")
\* wxThreadInternal::Wait begins with if ( wxThread::IsMain() )
\* wxMutexGuiLeave() and ends with if ( wxThread::IsMain() ) wxMutexGuiEnter()
WaitEntry(c) == IF IsMain(c) THEN "wait" ELSE "lock"
WaitExit(c) == IF IsMain(c) THEN "guienter" ELSE "exitcode"

TWait_Call(c) == Call(c, "Wait", WaitEntry(c))
Delete_Call(c) == Call(c, "Delete", "delete")

\* wxThread::Create / wxThread::Run: wxCriticalSectionLocker lock(m_critsect);
\* Run then tests WasCreated()
CS_Enter(c) ==
    /\ cpc[c] = "enter"
    /\ CanEnter(m_critsect)
    /\ m_critsect' = c
    /\ \E created \in Read(m_created, BOOLEAN) :
          cpc' = [cpc EXCEPT ![c] =
                     IF cop[c] = "Run" /\ created THEN "run" ELSE "create"]
    /\ UNCHANGED <<tobj, m_csJoinFlag, tos, cop, cres, c_state, c_id, c_rc,
                   thist>>
    /\ OnlyThread

\* wxThreadInternal::Create: if ( GetState() != STATE_NEW ) return RUNNING
\* (Create_Rejects_Never: the faulty variant without the test)
Create_Rejects_Never(state) == FALSE
Create_Rejects(state) == state # "STATE_NEW"

\* wxThreadInternal::Create: the state test
Create_Test(c) ==
    /\ cpc[c] = "create"
    /\ \E state \in Read(m_state, ThreadStates) :
          IF Create_Rejects(state)
          THEN /\ cpc' = [cpc EXCEPT ![c] = "leave"]
               /\ cres' = [cres EXCEPT ![c] = "wxTHREAD_RUNNING"]
          ELSE /\ cpc' = [cpc EXCEPT ![c] =
                             IF t_isDetached THEN "detach" ELSE "spawn"]
               /\ UNCHANGED cres
    /\ UNCHANGED <<tobj, tlocks, tos, cop, c_state, c_id, c_rc, thist>>
    /\ OnlyThread

\* wxThreadInternal::Detach, under m_csJoinFlag
Create_Detach(c) ==
    /\ cpc[c] = "detach"
    /\ CanEnter(m_csJoinFlag)
    /\ m_shouldBeJoined' = FALSE
    /\ cpc' = [cpc EXCEPT ![c] = "spawn"]
    /\ UNCHANGED <<t_isDetached, alive, m_state, m_created, m_cancelled,
                   m_isPaused, m_exitcode, m_threadId, m_semRun, m_semSuspend,
                   tlocks, tos, cop, cres, c_state, c_id, c_rc, thist>>
    /\ OnlyThread

\* after wxThreadInternal::Create returned NO_ERROR: Create returns it, Run
\* goes on to wxThreadInternal::Run
AfterCreate(c) == IF cop[c] = "Run" THEN "run" ELSE "leave"

\* pthread_create returns 0: a new OS thread runs PthreadStart
Create_Spawn(c) ==
    /\ cpc[c] = "spawn"
    /\ \E i \in OsIds :
          /\ os_pc[i] = "none"
          /\ \A j \in OsIds : j < i => os_pc[j] # "none"
          /\ os_pc' = [os_pc EXCEPT ![i] = "start"]
          /\ m_threadId' = i
    /\ m_created' = TRUE
    /\ cpc' = [cpc EXCEPT ![c] = AfterCreate(c)]
    /\ cres' = [cres EXCEPT ![c] =
                   IF cop[c] = "Run" THEN "none" ELSE "wxTHREAD_NO_ERROR"]
    /\ UNCHANGED <<t_isDetached, alive, m_state, m_cancelled, m_isPaused,
                   m_exitcode, m_shouldBeJoined, m_semRun, m_semSuspend,
                   tlocks, os_dontRunAtAll, os_status, os_joined, cop,
                   c_state, c_id, c_rc, thist>>
    /\ OnlyThread

\* pthread_create fails: SetState(STATE_EXITED), return NO_RESOURCE
Create_Fail(c) ==
    /\ cpc[c] = "spawn"
    /\ m_state' = "STATE_EXITED"
    /\ cpc' = [cpc EXCEPT ![c] = "leave"]
    /\ cres' = [cres EXCEPT ![c] = "wxTHREAD_NO_RESOURCE"]
    /\ UNCHANGED <<t_isDetached, alive, m_created, m_cancelled, m_isPaused,
                   m_exitcode, m_shouldBeJoined, m_threadId, m_semRun,
                   m_semSuspend, tlocks, tos, cop, c_state, c_id, c_rc, thist>>
    /\ OnlyThread

\* wxThreadInternal::Run: SetState(STATE_RUNNING)
Run_SetState(c) ==
    /\ cpc[c] = "run"
    /\ m_state' = "STATE_RUNNING"
    /\ runCalls' = runCalls + 1
    /\ cpc' = [cpc EXCEPT ![c] = "signal"]
    /\ UNCHANGED <<t_isDetached, alive, m_created, m_cancelled, m_isPaused,
                   m_exitcode, m_shouldBeJoined, m_threadId, m_semRun,
                   m_semSuspend, tlocks, tos, cop, cres, c_state, c_id, c_rc,
                   returned, entryCalls, joinCalls, sawNew, tcalls, killed>>
    /\ OnlyThread

\* wxThreadInternal::Run: SignalRun(), return NO_ERROR
Run_SignalRun(c) ==
    /\ cpc[c] = "signal"
    /\ m_semRun' = GatePost(m_semRun)
    /\ cpc' = [cpc EXCEPT ![c] = "leave"]
    /\ cres' = [cres EXCEPT ![c] = "wxTHREAD_NO_ERROR"]
    /\ UNCHANGED <<t_isDetached, alive, m_state, m_created, m_cancelled,
                   m_isPaused, m_exitcode, m_shouldBeJoined, m_threadId,
                   m_semSuspend, tlocks, tos, cop, c_state, c_id, c_rc, thist>>
    /\ OnlyThread

\* ~wxCriticalSectionLocker: Create / Run return
CS_Leave(c) ==
    /\ cpc[c] = "leave"
    /\ m_critsect' = 0
    /\ cpc' = [cpc EXCEPT ![c] = "idle"]
    /\ UNCHANGED <<tobj, m_csJoinFlag, tos, cop, cres, c_state, c_id, c_rc,
                   thist>>
    /\ OnlyThread

\* wxThreadInternal::Wait in the main thread: wxMutexGuiLeave(), that is
\* gs_mutexGui->Unlock()
\* (TWait_GuiLeave_Keep: the faulty variant that goes on holding the mutex)
TWait_GuiLeave_Keep(c) ==
    /\ cpc[c] = "wait"
    /\ cpc' = [cpc EXCEPT ![c] = "lock"]
    /\ UNCHANGED <<tobj, tlocks, tos, cop, cres, c_state, c_id, c_rc, thist>>
    /\ OnlyThread
TWait_GuiLeave(c) ==
    /\ cpc[c] = "wait"
    /\ gs_mutexGui' = gs_mutexGui \ {c}
    /\ cpc' = [cpc EXCEPT ![c] = "lock"]
    /\ UNCHANGED <<tobj, tlocks, tos, cop, cres, c_state, c_id, c_rc, thist,
                   gs_nThreadsBeingDeleted, gs_condAllDeleted, os_cancel,
                   gs_allThreads,
                   wxHAVE_PTHREAD_CLEANUP>>
    /\ OnlyThreads

\* wxThreadInternal::Wait in the main thread: wxMutexGuiEnter(), that is
\* gs_mutexGui->Lock(), which waits until nobody holds the mutex
TWait_GuiEnter(c) ==
    /\ cpc[c] = "guienter"
    /\ gs_mutexGui = {}
    /\ gs_mutexGui' = {c}
    /\ cpc' = [cpc EXCEPT ![c] = "exitcode"]
    /\ UNCHANGED <<tobj, tlocks, tos, cop, cres, c_state, c_id, c_rc, thist,
                   gs_nThreadsBeingDeleted, gs_condAllDeleted, os_cancel,
                   gs_allThreads,
                   wxHAVE_PTHREAD_CLEANUP>>
    /\ OnlyThreads

\* wxThreadInternal::Wait: wxCriticalSectionLocker lock(m_csJoinFlag), then
\* the test of m_shouldBeJoined; pthread_join is called with GetId()
TWait_Test(c) ==
    /\ cpc[c] = "lock"
    /\ CanEnter(m_csJoinFlag)
    /\ m_csJoinFlag' = c
    /\ \E join \in Read(m_shouldBeJoined, BOOLEAN) :
          IF join
          THEN /\ cpc' = [cpc EXCEPT ![c] = "join"]
               /\ \E id \in Read(m_threadId, {0} \cup OsIds) :
                     c_id' = [c_id EXCEPT ![c] = id]
               /\ joinCalls' = joinCalls + 1
          ELSE /\ cpc' = [cpc EXCEPT ![c] = "joined"]
               /\ UNCHANGED <<c_id, joinCalls>>
    /\ UNCHANGED <<tobj, m_critsect, tos, cop, cres, c_state, c_rc, returned,
                   entryCalls, runCalls, sawNew, tcalls, killed>>
    /\ OnlyThread

\* pthread_join can return the status of the OS thread id
Joinable(id) == id \in OsIds /\ os_pc[id] = "done" /\ id \notin os_joined

\* pthread_join fails at once: no such thread, or one joined before.  (With
\* such an id the call may instead never return: the caller then stays at
\* its position for ever, which every behaviour is free to do.)
NotJoinable(id) == id = 0 \/ id \in os_joined

\* the value of m_shouldBeJoined after pthread_join
TWait_ShouldBeJoined == FALSE

\* pthread_join(GetId(), &m_exitcode), then m_shouldBeJoined = false
TWait_Join(c) ==
    /\ cpc[c] = "join"
    /\ \/ /\ Joinable(c_id[c])
          /\ m_exitcode' = os_status[c_id[c]]
          /\ os_joined' = os_joined \cup {c_id[c]}
       \/ /\ NotJoinable(c_id[c])
          /\ UNCHANGED <<m_exitcode, os_joined>>
    /\ m_shouldBeJoined' = TWait_ShouldBeJoined
    /\ cpc' = [cpc EXCEPT ![c] = "joined"]
    /\ UNCHANGED <<t_isDetached, alive, m_state, m_created, m_cancelled,
                   m_isPaused, m_threadId, m_semRun, m_semSuspend, tlocks,
                   os_pc, os_dontRunAtAll, os_status, cop, cres, c_state,
                   c_id, c_rc, thist>>
    /\ OnlyThread

\* wxThreadInternal::Wait: ~wxCriticalSectionLocker
TWait_Leave(c) ==
    /\ cpc[c] = "joined"
    /\ m_csJoinFlag' = 0
    /\ cpc' = [cpc EXCEPT ![c] = WaitExit(c)]
    /\ UNCHANGED <<tobj, m_critsect, tos, cop, cres, c_state, c_id, c_rc,
                   thist>>
    /\ OnlyThread

\* wxThread::Wait: return m_internal->GetExitCode();
\* wxThread::Delete: *rc = m_internal->GetExitCode(), then its return value
TWait_Return(c) ==
    /\ cpc[c] = "exitcode"
    /\ \E code \in Read(m_exitcode, ExitCodes) :
          /\ c_rc' = [c_rc EXCEPT ![c] = {code}]
          /\ returned' = returned \cup {code}
    /\ Return(c, IF cop[c] = "Wait" THEN "none"
                 ELSE IF c_state[c] = "STATE_NEW" THEN "wxTHREAD_MISC_ERROR"
                 ELSE "wxTHREAD_NO_ERROR")
    /\ UNCHANGED <<tobj, tlocks, tos, cop, c_state, c_id, entryCalls,
                   runCalls, joinCalls, sawNew, tcalls, killed>>
    /\ OnlyThread

\* wxThread::Delete: under m_critsect, state = GetState(); SetCancelFlag()
Delete_Cancel(c) ==
    /\ cpc[c] = "delete"
    /\ CanEnter(m_critsect)
    /\ \E state \in Read(m_state, ThreadStates) :
          /\ c_state' = [c_state EXCEPT ![c] = state]
          /\ sawNew' = (sawNew \/ (alive /\ m_created /\ state = "STATE_NEW"))
    /\ m_cancelled' = TRUE
    /\ cpc' = [cpc EXCEPT ![c] = "switch"]
    /\ UNCHANGED <<t_isDetached, alive, m_state, m_created, m_isPaused,
                   m_exitcode, m_shouldBeJoined, m_threadId, m_semRun,
                   m_semSuspend, tlocks, tos, cop, cres, c_id, c_rc, returned,
                   entryCalls, runCalls, joinCalls, tcalls, killed>>
    /\ OnlyThread

\* wxThreadInternal::Resume: the pause gate is posted only if the thread is
\* really paused; the state is RUNNING afterwards
\* (Resume_SemSuspend_Always: the faulty variant that posts in any case)
Resume_SemSuspend_Always(paused) == GatePost(m_semSuspend)
Resume_SemSuspend(paused) == IF paused THEN GatePost(m_semSuspend) ELSE m_semSuspend

\* wxThread::Delete: switch ( state )
Delete_Switch(c) ==
    /\ cpc[c] = "switch"
    /\ CASE c_state[c] = "STATE_NEW" ->
              /\ m_semRun' = GatePost(m_semRun)
              /\ Return(c, "wxTHREAD_MISC_ERROR")
              /\ UNCHANGED <<m_state, m_isPaused, m_semSuspend>>
         [] c_state[c] = "STATE_EXITED" ->
              /\ Return(c, "wxTHREAD_NO_ERROR")
              /\ UNCHANGED <<m_state, m_isPaused, m_semRun, m_semSuspend>>
         [] c_state[c] = "STATE_PAUSED" ->
              /\ \E paused \in Read(m_isPaused, BOOLEAN) :
                    /\ m_semSuspend' = Resume_SemSuspend(paused)
                    /\ m_isPaused' = IF paused THEN FALSE ELSE m_isPaused
              /\ cpc' = [cpc EXCEPT ![c] = "setstate"]
              /\ UNCHANGED <<m_state, m_semRun, cres>>
         [] OTHER ->
              /\ IF t_isDetached
                 THEN Return(c, "wxTHREAD_NO_ERROR")
                 ELSE /\ cpc' = [cpc EXCEPT ![c] = WaitEntry(c)]
                      /\ UNCHANGED cres
              /\ UNCHANGED <<m_state, m_isPaused, m_semRun, m_semSuspend>>
    /\ UNCHANGED <<t_isDetached, alive, m_created, m_cancelled, m_exitcode,
                   m_shouldBeJoined, m_threadId, tlocks, tos, cop, c_state,
                   c_id, c_rc, thist>>
    /\ OnlyThread

\* wxThread::Delete, case STATE_PAUSED: the end of wxThreadInternal::Resume,
\* SetState(STATE_RUNNING), which Delete() runs without m_critsect; then the
\* default case
Delete_SetState(c) ==
    /\ cpc[c] = "setstate"
    /\ m_state' = "STATE_RUNNING"
    /\ IF t_isDetached
       THEN Return(c, "wxTHREAD_NO_ERROR")
       ELSE /\ cpc' = [cpc EXCEPT ![c] = WaitEntry(c)]
            /\ UNCHANGED cres
    /\ UNCHANGED <<t_isDetached, alive, m_created, m_cancelled, m_isPaused,
                   m_exitcode, m_shouldBeJoined, m_threadId, m_semRun,
                   m_semSuspend, tlocks, tos, cop, c_state, c_id, c_rc, thist>>
    /\ OnlyThread

\* wxThread::Pause: if ( GetState() != STATE_RUNNING ) return NOT_RUNNING
\* (Pause_Rejects_Never: the faulty variant without the test)
Pause_Rejects_Never(state) == FALSE
Pause_Rejects(state) == state # "STATE_RUNNING"

\* wxThread::Pause, all of it under wxCriticalSectionLocker lock(m_critsect):
\* only the state is set, the thread is not waited for
Pause_Do(c) ==
    /\ cpc[c] = "pause"
    /\ CanEnter(m_critsect)
    /\ \E state \in Read(m_state, ThreadStates) :
          IF Pause_Rejects(state)
          THEN /\ Return(c, "wxTHREAD_NOT_RUNNING")
               /\ UNCHANGED m_state
          ELSE /\ m_state' = "STATE_PAUSED"
               /\ Return(c, "wxTHREAD_NO_ERROR")
    /\ UNCHANGED <<t_isDetached, alive, m_created, m_cancelled, m_isPaused,
                   m_exitcode, m_shouldBeJoined, m_threadId, m_semRun,
                   m_semSuspend, tlocks, tos, cop, c_state, c_id, c_rc, thist>>
    /\ OnlyThread

\* wxThread::Resume: the value returned for the state found
\* (Resume_Result_Ok: the faulty variant that never reports an error)
Resume_Result_Ok(state) == "wxTHREAD_NO_ERROR"
Resume_Result(state) ==
    IF state \in {"STATE_PAUSED", "STATE_EXITED"}
    THEN "wxTHREAD_NO_ERROR" ELSE "wxTHREAD_MISC_ERROR"

\* wxThread::Resume, all of it under wxCriticalSectionLocker lock(m_critsect):
\* switch ( state ), with wxThreadInternal::Resume for STATE_PAUSED.  Kill()
\* calls it too, drops its result and goes on to pthread_cancel
Resume_Do(c) ==
    /\ cpc[c] = "resume"
    /\ CanEnter(m_critsect)
    /\ \E state \in Read(m_state, ThreadStates) :
          /\ IF state = "STATE_PAUSED"
             THEN /\ \E paused \in Read(m_isPaused, BOOLEAN) :
                        /\ m_semSuspend' = Resume_SemSuspend(paused)
                        /\ m_isPaused' = IF paused THEN FALSE ELSE m_isPaused
                  /\ m_state' = "STATE_RUNNING"
             ELSE UNCHANGED <<m_state, m_isPaused, m_semSuspend>>
          /\ IF cop[c] = "Kill"
             THEN cpc' = [cpc EXCEPT ![c] = "cancel"] /\ UNCHANGED cres
             ELSE Return(c, Resume_Result(state))
    /\ UNCHANGED <<t_isDetached, alive, m_created, m_cancelled, m_exitcode,
                   m_shouldBeJoined, m_threadId, m_semRun, tlocks, tos, cop,
                   c_state, c_id, c_rc, thist>>
    /\ OnlyThread

\* wxThread::Kill: the states in which nothing is cancelled
\* (Kill_NotRunning_Never: the faulty variant that cancels in any state)
Kill_NotRunning_Never(state) == FALSE
Kill_NotRunning(state) == state \in {"STATE_NEW", "STATE_EXITED"}

\* wxThread::Kill: OnKill(), then switch ( m_internal->GetState() ), read
\* without m_critsect
Kill_Switch(c) ==
    /\ cpc[c] = "kill"
    /\ \E state \in Read(m_state, ThreadStates) :
          /\ c_state' = [c_state EXCEPT ![c] = state]
          /\ IF Kill_NotRunning(state)
             THEN Return(c, "wxTHREAD_NOT_RUNNING")
             ELSE /\ cpc' = [cpc EXCEPT ![c] =
                                IF state = "STATE_PAUSED"
                                THEN "resume" ELSE "cancel"]
                  /\ UNCHANGED cres
    /\ UNCHANGED <<tobj, tlocks, tos, cop, c_id, c_rc, thist>>
    /\ OnlyThread

\* pthread_cancel finds the thread id: a thread that was started and not
\* joined; for one that has terminated it may as well fail
Cancellable(id) == id \in OsIds /\ os_pc[id] # "none" /\ id \notin os_joined
CancelFails(id) == IF Cancellable(id) THEN os_pc[id] = "done" ELSE TRUE

\* DeleteThread: if ( !--gs_nThreadsBeingDeleted ) gs_condAllDeleted->Signal()
\* The sets of waiting threads the call may wake, n being the counter after
\* the decrement
\* (AllDeleted_Signal_Never: the faulty variant that does not signal)
AllDeleted_Signal_Never(n) == {{}}
AllDeleted_Signal(n) == IF n = 0 THEN Signal(gs_condAllDeleted) ELSE {{}}

\* ScheduleThreadForDeletion: gs_nThreadsBeingDeleted++ under
\* gs_mutexDeleteThread (ScheduleThreadForDeletion_Skip: the faulty variant
\* that does not count the thread)
ScheduleThreadForDeletion_Skip(n) == n
ScheduleThreadForDeletion(n) == n + 1

\* wxThread::Kill: pthread_cancel(GetId()); when it fails MISC_ERROR; then a
\* joinable thread gets SetExitCode(EXITCODE_CANCELLED), a detached one is
\* left to wxPthreadCleanup or, in a build without cleanup functions, is
\* scheduled for deletion here
Kill_Cancel(c) ==
    /\ cpc[c] = "cancel"
    /\ \E id \in Read(m_threadId, {0} \cup OsIds) :
          \/ /\ CancelFails(id)
             /\ Return(c, "wxTHREAD_MISC_ERROR")
             /\ UNCHANGED <<m_exitcode, gs_nThreadsBeingDeleted, os_cancel,
                            killed>>
          \/ /\ Cancellable(id)
             /\ os_cancel' = os_cancel \cup {id}
             /\ IF t_isDetached
                THEN /\ UNCHANGED m_exitcode
                     /\ IF wxHAVE_PTHREAD_CLEANUP
                        THEN /\ Return(c, "wxTHREAD_NO_ERROR")
                             /\ killed' = TRUE
                             /\ UNCHANGED gs_nThreadsBeingDeleted
                        ELSE /\ gs_nThreadsBeingDeleted' =
                                   ScheduleThreadForDeletion(
                                       gs_nThreadsBeingDeleted)
                             /\ cpc' = [cpc EXCEPT ![c] = "deletethread"]
                             /\ UNCHANGED <<cres, killed>>
                ELSE /\ m_exitcode' = EXITCODE_CANCELLED
                     /\ Return(c, "wxTHREAD_NO_ERROR")
                     /\ killed' = TRUE
                     /\ UNCHANGED gs_nThreadsBeingDeleted
    /\ UNCHANGED <<t_isDetached, alive, m_state, m_created, m_cancelled,
                   m_isPaused, m_shouldBeJoined, m_threadId, m_semRun,
                   m_semSuspend, tlocks, tos, cop, c_state, c_id, c_rc,
                   returned, entryCalls, runCalls, joinCalls, sawNew, tcalls,
                   gs_mutexGui, gs_condAllDeleted, gs_allThreads,
                   wxHAVE_PTHREAD_CLEANUP>>
    /\ OnlyThreads

\* wxThread::Kill of a detached thread in a build without cleanup functions:
\* DeleteThread(this) begins with delete This, whose destructor passes
\* m_critsect
Kill_DeleteThread(c) ==
    /\ cpc[c] = "deletethread"
    /\ CanEnter(m_critsect)
    /\ alive' = FALSE
    /\ cpc' = [cpc EXCEPT ![c] = "deleted"]
    /\ UNCHANGED <<t_isDetached, m_state, m_created, m_cancelled, m_isPaused,
                   m_exitcode, m_shouldBeJoined, m_threadId, m_semRun,
                   m_semSuspend, tlocks, tos, cop, cres, c_state, c_id, c_rc,
                   thist>>
    /\ gs_allThreads' = Registry_Remove(gs_allThreads)
    /\ UNCHANGED <<gs_mutexGui, gs_nThreadsBeingDeleted, gs_condAllDeleted,
                   os_cancel, wxHAVE_PTHREAD_CLEANUP>>
    /\ OnlyThreads

\* DeleteThread in Kill, after the destruction: under gs_mutexDeleteThread,
\* if ( !--gs_nThreadsBeingDeleted ) gs_condAllDeleted->Signal(); Kill
\* returns NO_ERROR
Kill_Deleted(c) ==
    /\ cpc[c] = "deleted"
    /\ gs_nThreadsBeingDeleted' = gs_nThreadsBeingDeleted - 1
    /\ \E woken \in AllDeleted_Signal(gs_nThreadsBeingDeleted - 1) :
          gs_condAllDeleted' = gs_condAllDeleted \ woken
    /\ Return(c, "wxTHREAD_NO_ERROR")
    /\ killed' = TRUE
    /\ UNCHANGED <<tobj, tlocks, tos, cop, c_state, c_id, c_rc, returned,
                   entryCalls, runCalls, joinCalls, sawNew, tcalls,
                   gs_mutexGui, os_cancel, gs_allThreads,
                   wxHAVE_PTHREAD_CLEANUP>>
    /\ OnlyThreads

\* wxThreadModule::OnExit is entered by the main thread when the program
\* ends
Shut_Call(c) ==
    /\ IsMain(c)
    /\ cpc[c] = "idle"
    /\ cop[c] # "OnExit"
    /\ tcalls < MaxThreadCalls
    /\ tcalls' = tcalls + 1
    /\ cpc' = [cpc EXCEPT ![c] = "barrier"]
    /\ cop' = [cop EXCEPT ![c] = "OnExit"]
    /\ cres' = [cres EXCEPT ![c] = "none"]
    /\ c_rc' = [c_rc EXCEPT ![c] = {}]
    /\ UNCHANGED <<tobj, tlocks, tos, c_state, c_id, returned, entryCalls,
                   runCalls, joinCalls, sawNew, killed>>
    /\ OnlyThread

\* wxThreadModule::OnExit: under gs_mutexDeleteThread,
\* if ( gs_nThreadsBeingDeleted > 0 ) gs_condAllDeleted->Wait(), which
\* releases the mutex and blocks
Shut_Barrier(c) ==
    /\ cpc[c] = "barrier"
    /\ IF gs_nThreadsBeingDeleted > 0
       THEN /\ gs_condAllDeleted' = gs_condAllDeleted \cup {c}
            /\ cpc' = [cpc EXCEPT ![c] = "allwait"]
       ELSE /\ cpc' = [cpc EXCEPT ![c] = "count"]
            /\ UNCHANGED gs_condAllDeleted
    /\ UNCHANGED <<tobj, tlocks, tos, cop, cres, c_state, c_id, c_rc, thist,
                   gs_mutexGui, gs_nThreadsBeingDeleted, os_cancel,
                   gs_allThreads,
                   wxHAVE_PTHREAD_CLEANUP>>
    /\ OnlyThreads

\* the condition wait of wxThreadModule::OnExit ends without a signal
\* (allowed by POSIX)
Shut_Spurious(c) ==
    /\ cpc[c] = "allwait"
    /\ c \in gs_condAllDeleted
    /\ gs_condAllDeleted' = gs_condAllDeleted \ {c}
    /\ UNCHANGED <<tvars, gs_mutexGui, gs_nThreadsBeingDeleted, os_cancel,
                   gs_allThreads,
                   wxHAVE_PTHREAD_CLEANUP>>
    /\ OnlyThreads

\* gs_condAllDeleted->Wait() returns with gs_mutexDeleteThread locked again;
\* the locker releases it: the barrier is left
Shut_Leave(c) ==
    /\ cpc[c] = "allwait"
    /\ c \notin gs_condAllDeleted
    /\ cpc' = [cpc EXCEPT ![c] = "count"]
    /\ UNCHANGED <<tobj, tlocks, tos, cop, cres, c_state, c_id, c_rc, thist>>
    /\ OnlyThread

\* wxThreadModule::OnExit: under gs_mutexAllThreads, count =
\* gs_allThreads.GetCount(); then for every n < count
\* gs_allThreads[0]->Delete()
Shut_Count(c) ==
    /\ cpc[c] = "count"
    /\ cpc' = [cpc EXCEPT ![c] =
                  IF gs_allThreads = {} THEN "cleanup" ELSE "delete"]
    /\ UNCHANGED <<tobj, tlocks, tos, cop, cres, c_state, c_id, c_rc, thist>>
    /\ OnlyThread

\* wxThreadModule::OnExit after the loop: delete gs_mutexAllThreads,
\* gs_mutexGui->Unlock(), and the rest is freed
Shut_Cleanup(c) ==
    /\ cpc[c] = "cleanup"
    /\ gs_mutexGui' = gs_mutexGui \ {c}
    /\ cpc' = [cpc EXCEPT ![c] = "idle"]
    /\ UNCHANGED <<tobj, tlocks, tos, cop, cres, c_state, c_id, c_rc, thist,
                   gs_nThreadsBeingDeleted, gs_condAllDeleted, os_cancel,
                   gs_allThreads,
                   wxHAVE_PTHREAD_CLEANUP>>
    /\ OnlyThreads

\* PthreadStart: pthread_setspecific(gs_keySelf, thread)
OS_Start(i) ==
    /\ os_pc[i] = "start"
    /\ os_pc' = [os_pc EXCEPT ![i] = "semrun"]
    /\ UNCHANGED <<tobj, tlocks, os_dontRunAtAll, os_status, os_joined, tcl,
                   thist>>
    /\ OnlyThread

\* PthreadStart: pthread->m_semRun.Wait() returns
OS_SemRunWait(i) ==
    /\ os_pc[i] = "semrun"
    /\ \E count \in Read(m_semRun, 0..GateMax) :
          /\ count > 0
          /\ m_semRun' = IF alive THEN count - 1 ELSE m_semRun
    /\ os_pc' = [os_pc EXCEPT ![i] = "test"]
    /\ UNCHANGED <<t_isDetached, alive, m_state, m_created, m_cancelled,
                   m_isPaused, m_exitcode, m_shouldBeJoined, m_threadId,
                   m_semSuspend, tlocks, os_dontRunAtAll, os_status,
                   os_joined, tcl, thist>>
    /\ OnlyThread

\* PthreadStart: under m_critsect, dontRunAtAll = GetState() == STATE_NEW &&
\* WasCancelled()
OS_Test(i) ==
    /\ os_pc[i] = "test"
    /\ CanEnter(m_critsect)
    /\ \E state \in Read(m_state, ThreadStates),
          cancelled \in Read(m_cancelled, BOOLEAN) :
          /\ os_dontRunAtAll' =
                [os_dontRunAtAll EXCEPT ![i] = DontRunAtAll(state, cancelled)]
          /\ os_pc' = [os_pc EXCEPT ![i] =
                          IF DontRunAtAll(state, cancelled)
                          THEN "delete" ELSE "entry"]
    /\ UNCHANGED <<tobj, tlocks, os_status, os_joined, tcl, thist>>
    /\ OnlyThread

\* PthreadStart: thread->CallEntry() is entered: the user's code runs
OS_CallEntry(i) ==
    /\ os_pc[i] = "entry"
    /\ entryCalls' = entryCalls + 1
    /\ os_pc' = [os_pc EXCEPT ![i] = "running"]
    /\ UNCHANGED <<tobj, tlocks, os_dontRunAtAll, os_status, os_joined, tcl,
                   returned, runCalls, joinCalls, sawNew, tcalls, killed>>
    /\ OnlyThread

\* The user's code takes the GUI mutex: wxMutexGuiEnter(), that is
\* gs_mutexGui->Lock()
Entry_GuiEnter(i) ==
    /\ os_pc[i] = "running"
    /\ gs_mutexGui = {}
    /\ gs_mutexGui' = {-i}
    /\ os_pc' = [os_pc EXCEPT ![i] = "gui"]
    /\ UNCHANGED <<tobj, tlocks, os_dontRunAtAll, os_status, os_joined, tcl,
                   thist, gs_nThreadsBeingDeleted, gs_condAllDeleted,
                   os_cancel, gs_allThreads,
                   wxHAVE_PTHREAD_CLEANUP>>
    /\ OnlyThreads

\* The user's code gives the GUI mutex back: wxMutexGuiLeave(), that is
\* gs_mutexGui->Unlock(); what is left of Entry() needs it no more
Entry_GuiLeave(i) ==
    /\ os_pc[i] = "gui"
    /\ gs_mutexGui' = gs_mutexGui \ {-i}
    /\ os_pc' = [os_pc EXCEPT ![i] = "worked"]
    /\ UNCHANGED <<tobj, tlocks, os_dontRunAtAll, os_status, os_joined, tcl,
                   thist, gs_nThreadsBeingDeleted, gs_condAllDeleted,
                   os_cancel, gs_allThreads,
                   wxHAVE_PTHREAD_CLEANUP>>
    /\ OnlyThreads

\* PthreadStart: pthread->m_exitcode = thread->CallEntry()
OS_EntryReturn(i) ==
    /\ os_pc[i] \in {"running", "worked"}
    /\ \E v \in EntryValues : m_exitcode' = v
    /\ os_pc' = [os_pc EXCEPT ![i] = "exited"]
    /\ UNCHANGED <<t_isDetached, alive, m_state, m_created, m_cancelled,
                   m_isPaused, m_shouldBeJoined, m_threadId, m_semRun,
                   m_semSuspend, tlocks, os_dontRunAtAll, os_status,
                   os_joined, tcl, thist>>
    /\ OnlyThread

\* The user's code reaches a check-point (wxThread::TestDestroy, whose code
\* is outside the sources at hand): wxCriticalSectionLocker lock(m_critsect)
TestDestroy_Enter(i) ==
    /\ os_pc[i] = "running"
    /\ CanEnter(m_critsect)
    /\ m_critsect' = -i
    /\ os_pc' = [os_pc EXCEPT ![i] = "check"]
    /\ UNCHANGED <<tobj, m_csJoinFlag, os_dontRunAtAll, os_status, os_joined,
                   tcl, thist>>
    /\ OnlyThread

\* The check-point finds STATE_PAUSED: SetReallyPaused(true), m_critsect is
\* left and wxThreadInternal::Pause is called; otherwise it returns
TestDestroy_Test(i) ==
    /\ os_pc[i] = "check"
    /\ m_critsect' = 0
    /\ \E state \in Read(m_state, ThreadStates) :
          IF state = "STATE_PAUSED"
          THEN /\ m_isPaused' = TRUE
               /\ os_pc' = [os_pc EXCEPT ![i] = "suspended"]
          ELSE /\ os_pc' = [os_pc EXCEPT ![i] = "running"]
               /\ UNCHANGED m_isPaused
    /\ UNCHANGED <<t_isDetached, alive, m_state, m_created, m_cancelled,
                   m_exitcode, m_shouldBeJoined, m_threadId, m_semRun,
                   m_semSuspend, m_csJoinFlag, os_dontRunAtAll, os_status,
                   os_joined, tcl, thist>>
    /\ OnlyThread

\* wxThreadInternal::Pause: m_semSuspend.Wait() returns
Pause_Wait(i) ==
    /\ os_pc[i] = "suspended"
    /\ \E count \in Read(m_semSuspend, 0..GateMax) :
          /\ count > 0
          /\ m_semSuspend' = IF alive THEN count - 1 ELSE m_semSuspend
    /\ os_pc' = [os_pc EXCEPT ![i] = "resumed"]
    /\ UNCHANGED <<t_isDetached, alive, m_state, m_created, m_cancelled,
                   m_isPaused, m_exitcode, m_shouldBeJoined, m_threadId,
                   m_semRun, tlocks, os_dontRunAtAll, os_status, os_joined,
                   tcl, thist>>
    /\ OnlyThread

\* The check-point after the pause: m_critsect is entered again and left by
\* the locker; the user's code goes on
TestDestroy_Return(i) ==
    /\ os_pc[i] = "resumed"
    /\ CanEnter(m_critsect)
    /\ os_pc' = [os_pc EXCEPT ![i] = "running"]
    /\ UNCHANGED <<tobj, tlocks, os_dontRunAtAll, os_status, os_joined, tcl,
                   thist>>
    /\ OnlyThread

\* PthreadStart: under m_critsect, SetState(STATE_EXITED)
OS_SetExited(i) ==
    /\ os_pc[i] = "exited"
    /\ CanEnter(m_critsect)
    /\ m_state' = "STATE_EXITED"
    /\ os_pc' = [os_pc EXCEPT ![i] = "exit"]
    /\ UNCHANGED <<t_isDetached, alive, m_created, m_cancelled, m_isPaused,
                   m_exitcode, m_shouldBeJoined, m_threadId, m_semRun,
                   m_semSuspend, tlocks, os_dontRunAtAll, os_status,
                   os_joined, tcl, thist>>
    /\ OnlyThread

\* wxThread::Exit: if ( m_isDetached ) ... DeleteThread(this)
Exit_Deletes == t_isDetached

\* wxThread::Exit(status) is entered, from PthreadStart with
\* pthread->m_exitcode or from wxThreadInternal::Cleanup with
\* EXITCODE_CANCELLED: a detached thread begins with
\* ScheduleThreadForDeletion(), gs_nThreadsBeingDeleted++ under
\* gs_mutexDeleteThread.  The user's OnExit() is called next.
OS_Schedule(i) ==
    /\ os_pc[i] \in {"exit", "cancelexit"}
    /\ \E status \in Read(m_exitcode, ExitCodes) :
          os_status' = [os_status EXCEPT ![i] =
                           IF os_pc[i] = "exit" THEN status
                           ELSE EXITCODE_CANCELLED]
    /\ gs_nThreadsBeingDeleted' =
          IF Exit_Deletes
          THEN ScheduleThreadForDeletion(gs_nThreadsBeingDeleted)
          ELSE gs_nThreadsBeingDeleted
    /\ os_pc' = [os_pc EXCEPT ![i] = "onexit"]
    /\ UNCHANGED <<tobj, tlocks, os_dontRunAtAll, os_joined, tcl, thist,
                   gs_mutexGui, gs_condAllDeleted, os_cancel,
                   gs_allThreads,
                   wxHAVE_PTHREAD_CLEANUP>>
    /\ OnlyThreads

\* wxThread::Exit after OnExit(): a detached thread deletes its own object
\* (DeleteThread begins with delete This, whose destructor passes
\* m_critsect); a joinable one sets STATE_EXITED under m_critsect and ends
\* in pthread_exit(status)
OS_Exit(i) ==
    /\ os_pc[i] = "onexit"
    /\ CanEnter(m_critsect)
    /\ IF Exit_Deletes
       THEN /\ alive' = FALSE
            /\ os_pc' = [os_pc EXCEPT ![i] = "deleted"]
            /\ UNCHANGED m_state
       ELSE /\ m_state' = "STATE_EXITED"
            /\ os_pc' = [os_pc EXCEPT ![i] = "done"]
            /\ UNCHANGED alive
    /\ UNCHANGED <<t_isDetached, m_created, m_cancelled, m_isPaused,
                   m_exitcode, m_shouldBeJoined, m_threadId, m_semRun,
                   m_semSuspend, tlocks, os_dontRunAtAll, os_status,
                   os_joined, tcl, thist>>
    /\ gs_allThreads' = IF Exit_Deletes THEN Registry_Remove(gs_allThreads)
                                   ELSE gs_allThreads
    /\ UNCHANGED <<gs_mutexGui, gs_nThreadsBeingDeleted, gs_condAllDeleted,
                   os_cancel, wxHAVE_PTHREAD_CLEANUP>>
    /\ OnlyThreads

\* DeleteThread in Exit, after the destruction: under gs_mutexDeleteThread,
\* if ( !--gs_nThreadsBeingDeleted ) gs_condAllDeleted->Signal(); then
\* pthread_exit(status)
OS_Deleted(i) ==
    /\ os_pc[i] = "deleted"
    /\ gs_nThreadsBeingDeleted' = gs_nThreadsBeingDeleted - 1
    /\ \E woken \in AllDeleted_Signal(gs_nThreadsBeingDeleted - 1) :
          gs_condAllDeleted' = gs_condAllDeleted \ woken
    /\ os_pc' = [os_pc EXCEPT ![i] = "done"]
    /\ UNCHANGED <<tobj, tlocks, os_dontRunAtAll, os_status, os_joined, tcl,
                   thist, gs_mutexGui, os_cancel, gs_allThreads,
                   wxHAVE_PTHREAD_CLEANUP>>
    /\ OnlyThreads

\* The cancellation is acted on at a cancellation point: a wait on one of
\* the gates or the user's code.  With cleanup functions
\* wxThreadInternal::Cleanup runs: under m_critsect it tests the state and,
\* unless that is EXITED, calls Exit(EXITCODE_CANCELLED).  Without them the
\* OS thread just ends.
OS_Cancelled(i) ==
    /\ i \in os_cancel
    /\ os_pc[i] \in {"semrun", "running", "suspended"}
    /\ IF wxHAVE_PTHREAD_CLEANUP
       THEN /\ CanEnter(m_critsect)
            /\ \E state \in Read(m_state, ThreadStates) :
                  IF state = "STATE_EXITED"
                  THEN /\ os_pc' = [os_pc EXCEPT ![i] = "done"]
                       /\ os_status' =
                             [os_status EXCEPT ![i] = EXITCODE_CANCELLED]
                  ELSE /\ os_pc' = [os_pc EXCEPT ![i] = "cancelexit"]
                       /\ UNCHANGED os_status
       ELSE /\ os_pc' = [os_pc EXCEPT ![i] = "done"]
            /\ os_status' = [os_status EXCEPT ![i] = EXITCODE_CANCELLED]
    /\ UNCHANGED <<tobj, tlocks, os_dontRunAtAll, os_joined, tcl, thist>>
    /\ OnlyThread

\* PthreadStart, dontRunAtAll: delete thread (the destructor passes
\* m_critsect); return EXITCODE_CANCELLED
OS_Delete(i) ==
    /\ os_pc[i] = "delete"
    /\ CanEnter(m_critsect)
    /\ alive' = FALSE
    /\ os_status' = [os_status EXCEPT ![i] = EXITCODE_CANCELLED]
    /\ os_pc' = [os_pc EXCEPT ![i] = "done"]
    /\ UNCHANGED <<t_isDetached, m_state, m_created, m_cancelled, m_isPaused,
                   m_exitcode, m_shouldBeJoined, m_threadId, m_semRun,
                   m_semSuspend, tlocks, os_dontRunAtAll, os_joined, tcl,
                   thist>>
    /\ gs_allThreads' = Registry_Remove(gs_allThreads)
    /\ UNCHANGED <<gs_mutexGui, gs_nThreadsBeingDeleted, gs_condAllDeleted,
                   os_cancel, wxHAVE_PTHREAD_CLEANUP>>
    /\ OnlyThreads

(***************************************************************************)
(* Specifications.  Each one runs one part; the other parts stay in one    *)
(* fixed initial state.                                                    *)
(***************************************************************************)

(***************************************************************************)
(* Part 4: values computed from arguments: the scheduling priority of      *)
(* wxThreadInternal::Create and the deadline of wxMutexInternal::Lock(ms)  *)
(***************************************************************************)

\* m_prio is in wxWidgets units, from 0 to 100, the divisor of Create
WX_PRIO_MAX == 100
\* largest priority of the OS scheduling policy that is explored
MaxOsPrio == 3

\* the / of C on int, which truncates towards zero (b > 0)
CDiv(a, b) == IF a >= 0 THEN a \div b ELSE -((-a) \div b)

\* Create: min_prio == -1 || max_prio == -1 and max_prio == min_prio leave
\* the attribute alone
Create_SetsPriority(min, max) == ~(min = -1 \/ max = -1) /\ max # min

\* Create: sp.sched_priority = min_prio + (prio*(max_prio - min_prio))/100
\* (Create_SchedPriority_DivFirst: the faulty variant that divides first)
Create_SchedPriority_DivFirst(prio, min, max) ==
    min + CDiv(prio, WX_PRIO_MAX) * (max - min)
Create_SchedPriority(prio, min, max) ==
    min + CDiv(prio * (max - min), WX_PRIO_MAX)

\* a thread with any priority under a policy with any range of priorities
AttrNew ==
    /\ m_prio \in 0..WX_PRIO_MAX
    /\ min_prio \in -1..MaxOsPrio
    /\ max_prio \in -1..MaxOsPrio
    /\ sched_priority = 0
    /\ sp_set = FALSE
    /\ attr_done = FALSE

\* wxThreadInternal::Create, the thread priority of the attribute
Create_Priority ==
    /\ ~attr_done
    /\ attr_done' = TRUE
    /\ IF Create_SetsPriority(min_prio, max_prio)
       THEN /\ sched_priority' =
                  Create_SchedPriority(m_prio, min_prio, max_prio)
            /\ sp_set' = TRUE
       ELSE UNCHANGED <<sched_priority, sp_set>>
    /\ UNCHANGED <<m_prio, min_prio, max_prio, tsv>>
    /\ UNCHANGED <<mvars, svars, tvars, tglob>>

\* the constants of Lock(ms)
MSEC_IN_SEC == 1000
NSEC_IN_MSEC == 1000000
NSEC_IN_USEC == 1000
NSEC_IN_SEC == MSEC_IN_SEC * NSEC_IN_MSEC

\* the arguments and the times of day that are explored
LockMs == {0, 1, 500, 999, 1000, 1500, 2001}
NowUsec == {0, 1, 1000, 500000, 999000, 999999}
\* last second of the time of day that is explored
MaxNowSec == 1

\* Lock(ms) is called with any argument at any time of day, and
\* wxGetTimeOfDay works or fails
DeadlineNew ==
    /\ l_ms \in LockMs
    /\ tv_ok \in BOOLEAN
    /\ tv_sec \in 0..MaxNowSec
    /\ tv_usec \in NowUsec
    /\ ts_sec = 0 /\ ts_nsec = 0
    /\ ts_done = FALSE

\* Lock(ms): seconds and nanoseconds of the argument
Lock_Seconds(ms) == ms \div MSEC_IN_SEC
Lock_Nanoseconds(ms) == (ms % MSEC_IN_SEC) * NSEC_IN_MSEC

\* Lock(ms): the test that carries one second
Lock_Carry(nsec) == nsec > NSEC_IN_SEC

\* wxMutexInternal::Lock(ms) up to the call of pthread_mutex_timedlock: ts
\* starts as { 0, 0 }, takes the time of day (or the seconds of time(NULL)
\* when wxGetTimeOfDay fails), and the argument is added
Lock_Deadline ==
    /\ ~ts_done
    /\ ts_done' = TRUE
    /\ LET sec == tv_sec + Lock_Seconds(l_ms)
           nsec == (IF tv_ok THEN tv_usec * NSEC_IN_USEC ELSE 0)
                      + Lock_Nanoseconds(l_ms)
       IN  IF Lock_Carry(nsec)
           THEN /\ ts_sec' = sec + 1
                /\ ts_nsec' = nsec - NSEC_IN_SEC
           ELSE /\ ts_sec' = sec
                /\ ts_nsec' = nsec
    /\ UNCHANGED <<l_ms, tv_ok, tv_sec, tv_usec, attrv>>
    /\ UNCHANGED <<mvars, svars, tvars, tglob>>

\* no attribute is being set up: a scheduling policy with a single
\* priority, under which m_prio plays no part
AttrIdle ==
    /\ m_prio = 0
    /\ min_prio = 0 /\ max_prio = 0
    /\ sched_priority = 0
    /\ sp_set = FALSE
    /\ attr_done = TRUE
\* no deadline is being computed
DeadlineIdle ==
    /\ l_ms = 0 /\ tv_ok = TRUE /\ tv_sec = 0 /\ tv_usec = 0
    /\ ts_sec = 0 /\ ts_nsec = 0
    /\ ts_done = TRUE
CalcIdle == AttrIdle /\ DeadlineIdle

MutexIdle == MutexInit /\ m_type = "wxMUTEX_DEFAULT"
SemaIdle == SemaInit /\ m_maxcount = 1 /\ m_count = 0
ThreadIdle == ThreadInit /\ t_isDetached = FALSE /\ wxHAVE_PTHREAD_CLEANUP

InitMutex == MutexInit /\ SemaIdle /\ ThreadIdle /\ CalcIdle
InitSema == MutexIdle /\ SemaInit /\ ThreadIdle /\ CalcIdle
InitThread ==
    MutexIdle /\ SemaIdle /\ ThreadInit /\ wxHAVE_PTHREAD_CLEANUP /\ CalcIdle
InitJoinable == MutexIdle /\ SemaIdle /\ ThreadIdle /\ CalcIdle
InitDetached == InitThread /\ t_isDetached

\* Run() has returned with the thread started
RunReturned ==
    /\ runCalls > 0
    /\ \A c \in Callers : ~(cop[c] = "Run" /\ cpc[c] # "idle")

\* one thread calls the methods of the mutex one after the other
NextMutexSingle == \E t \in SoleThread : MutexStep(t)
SpecMutexSingle == InitMutex /\ [][NextMutexSingle]_vars

\* several threads call the methods of the mutex
NextMutex == \E t \in MutexThreads : MutexStep(t)
SpecMutex == InitMutex /\ [][NextMutex]_vars

\* several threads call the methods of a mutex whose native unlock may fail
NextMutexUnlock ==
    \/ \E t \in MutexThreads : MutexStep(t)
    \/ \E t \in MutexThreads : NativeUnlock_Error(t)
SpecMutexUnlock == InitMutex /\ [][NextMutexUnlock]_vars

\* several threads call the methods of the mutex, each calling Unlock() only
\* while it holds the native mutex
UnlockHeld_Call(t) == m_mutex = t /\ Unlock_Call(t)
NextMutexHeld ==
    \E t \in MutexThreads :
        \/ Lock_Call(t)
        \/ LockTimeout_Call(t)
        \/ NativeLock_Acquire(t)
        \/ NativeLock_Timeout(t)
        \/ NativeLock_EDEADLK(t)
        \/ HandleLockResult_Ok(t)
        \/ TryLock_Call(t)
        \/ TryLock_Ok(t)
        \/ UnlockHeld_Call(t)
        \/ NativeUnlock_Ok(t)
        \/ NativeUnlock_Error(t)
SpecMutexHeld == InitMutex /\ [][NextMutexHeld]_vars

\* several threads call Wait(), TryWait() and Post() of the semaphore
NextSema ==
    \/ \E t \in SemThreads : Wait_Call(t)
    \/ \E t \in SemThreads : TryWait_Call(t)
    \/ \E t \in SemThreads : Post_Call(t)
    \/ \E t \in SemThreads : Sem_Lock(t)
    \/ \E t \in SemThreads : Wait_Test(t)
    \/ \E t \in SemThreads : TryWait_Test(t)
    \/ \E t \in SemThreads : Cond_Wait(t)
    \/ \E t \in SemThreads : Cond_Spurious(t)
    \/ \E t \in SemThreads : Cond_Return(t)
    \/ \E t \in SemThreads : Sem_Decrement(t)
    \/ \E t \in SemThreads : Post_Test(t)
    \/ \E t \in SemThreads : Post_Signal(t)
    \/ \E t \in SemThreads : Sem_Unlock(t)
SpecSema == InitSema /\ [][NextSema]_vars

\* the threads that call every method of the semaphore, WaitTimeout()
\* included, while time passes
TimedThreads == 1..NumTimedThreads
NextSemaTimed ==
    \/ \E t \in TimedThreads : scalls < MaxTimedCalls /\ Wait_Call(t)
    \/ \E t \in TimedThreads : scalls < MaxTimedCalls /\ TryWait_Call(t)
    \/ \E t \in TimedThreads : scalls < MaxTimedCalls /\ WaitTimeout_Call(t)
    \/ \E t \in TimedThreads : scalls < MaxTimedCalls /\ Post_Call(t)
    \/ \E t \in TimedThreads : Sem_Lock(t)
    \/ \E t \in TimedThreads : Wait_Test(t)
    \/ \E t \in TimedThreads : TryWait_Test(t)
    \/ \E t \in TimedThreads : WaitTimeout_Test(t)
    \/ \E t \in TimedThreads : Cond_Wait(t)
    \/ \E t \in TimedThreads : Cond_WaitTimeout(t)
    \/ \E t \in TimedThreads : Cond_Spurious(t)
    \/ \E t \in TimedThreads : Cond_TimedOut(t)
    \/ \E t \in TimedThreads : Cond_Return(t)
    \/ \E t \in TimedThreads : Sem_Decrement(t)
    \/ \E t \in TimedThreads : Post_Test(t)
    \/ \E t \in TimedThreads : Post_Signal(t)
    \/ \E t \in TimedThreads : Sem_Unlock(t)
    \/ Tick
SpecSemaTimed == InitSema /\ [][NextSemaTimed]_vars

\* threads that call Wait(), WaitTimeout() and Post() of a semaphore without
\* upper limit, when the native condition wait may fail
InitSemaUnbounded == InitSema /\ m_maxcount = 0
NextSemaOutcomes ==
    \/ \E t \in TimedThreads : scalls < MaxTimedCalls /\ Wait_Call(t)
    \/ \E t \in TimedThreads : scalls < MaxTimedCalls /\ WaitTimeout_Call(t)
    \/ \E t \in TimedThreads : scalls < MaxTimedCalls /\ Post_Call(t)
    \/ \E t \in TimedThreads : Sem_Lock(t)
    \/ \E t \in TimedThreads : Wait_Test(t)
    \/ \E t \in TimedThreads : WaitTimeout_Test(t)
    \/ \E t \in TimedThreads : Cond_Wait(t)
    \/ \E t \in TimedThreads : Cond_WaitTimeout(t)
    \/ \E t \in TimedThreads : Cond_Error(t)
    \/ \E t \in TimedThreads : Cond_Spurious(t)
    \/ \E t \in TimedThreads : Cond_TimedOut(t)
    \/ \E t \in TimedThreads : Cond_Return(t)
    \/ \E t \in TimedThreads : Sem_Decrement(t)
    \/ \E t \in TimedThreads : Post_Test(t)
    \/ \E t \in TimedThreads : Post_Signal(t)
    \/ \E t \in TimedThreads : Sem_Unlock(t)
    \/ Tick
SpecSemaOutcomes == InitSemaUnbounded /\ [][NextSemaOutcomes]_vars

\* the attribute of a thread is set up
InitPriority ==
    MutexIdle /\ SemaIdle /\ ThreadIdle /\ AttrNew /\ DeadlineIdle
NextPriority == Create_Priority
SpecPriority == InitPriority /\ [][NextPriority]_vars

\* the deadline of a Lock(ms) is computed
InitDeadline ==
    MutexIdle /\ SemaIdle /\ ThreadIdle /\ AttrIdle /\ DeadlineNew
NextDeadline == Lock_Deadline
SpecDeadline == InitDeadline /\ [][NextDeadline]_vars

\* a semaphore is constructed from any pair of arguments
InitSemaCtor == MutexIdle /\ SemaNew /\ ThreadIdle /\ CalcIdle
NextSemaCtor == Sema_Ctor
SpecSemaCtor == InitSemaCtor /\ [][NextSemaCtor]_vars

\* longest sequence of semaphore calls explored when every outcome of every
\* method can happen
MaxLockerCalls == 2

\* threads that call every method of the semaphore, when the native
\* condition wait may fail
NextSemaLocker ==
    \/ \E t \in TimedThreads : scalls < MaxLockerCalls /\ Wait_Call(t)
    \/ \E t \in TimedThreads : scalls < MaxLockerCalls /\ TryWait_Call(t)
    \/ \E t \in TimedThreads : scalls < MaxLockerCalls /\ WaitTimeout_Call(t)
    \/ \E t \in TimedThreads : scalls < MaxLockerCalls /\ Post_Call(t)
    \/ \E t \in TimedThreads : Sem_Lock(t)
    \/ \E t \in TimedThreads : Wait_Test(t)
    \/ \E t \in TimedThreads : TryWait_Test(t)
    \/ \E t \in TimedThreads : WaitTimeout_Test(t)
    \/ \E t \in TimedThreads : Cond_Wait(t)
    \/ \E t \in TimedThreads : Cond_WaitTimeout(t)
    \/ \E t \in TimedThreads : Cond_Error(t)
    \/ \E t \in TimedThreads : Cond_Spurious(t)
    \/ \E t \in TimedThreads : Cond_TimedOut(t)
    \/ \E t \in TimedThreads : Cond_Return(t)
    \/ \E t \in TimedThreads : Sem_Decrement(t)
    \/ \E t \in TimedThreads : Post_Test(t)
    \/ \E t \in TimedThreads : Post_Signal(t)
    \/ \E t \in TimedThreads : Sem_Unlock(t)
    \/ Tick
SpecSemaLocker == InitSema /\ [][NextSemaLocker]_vars

\* longest WaitTimeout argument and last clock reading of the waits on a
\* semaphore that stays empty
MaxWaitMs == 2
MaxWaitClock == 2

\* threads that only call WaitTimeout() on a semaphore nobody posts to, while
\* time passes
InitSemaEmpty == InitSema /\ m_count = 0
WaitTimeoutEmpty_Call(t) ==
    \E ms \in 0..MaxWaitMs : Sem_Enter(t, "WaitTimeout", ms)
TickEmpty ==
    /\ clock < MaxWaitClock
    /\ clock' = clock + 1
    /\ UNCHANGED <<ssem, sthr, stime, shist>>
    /\ OnlySema
NextSemaEmpty ==
    \/ \E t \in TimedThreads : scalls < MaxTimedCalls /\ WaitTimeoutEmpty_Call(t)
    \/ \E t \in TimedThreads : Sem_Lock(t)
    \/ \E t \in TimedThreads : WaitTimeout_Test(t)
    \/ \E t \in TimedThreads : Cond_WaitTimeout(t)
    \/ \E t \in TimedThreads : Cond_Spurious(t)
    \/ \E t \in TimedThreads : Cond_TimedOut(t)
    \/ \E t \in TimedThreads : Cond_Return(t)
    \/ \E t \in TimedThreads : Sem_Unlock(t)
    \/ TickEmpty
SpecSemaEmpty == InitSemaEmpty /\ [][NextSemaEmpty]_vars

\* threads that only Wait() and Post(), under a fair scheduler: a thread
\* that can take a step of the method it is in eventually takes it, and a
\* thread that tries to lock a mutex which keeps being released gets it
NextSemaWaitPost ==
    \/ \E t \in SemThreads : Wait_Call(t)
    \/ \E t \in SemThreads : Post_Call(t)
    \/ \E t \in SemThreads : Sem_Lock(t)
    \/ \E t \in SemThreads : Wait_Test(t)
    \/ \E t \in SemThreads : Cond_Wait(t)
    \/ \E t \in SemThreads : Cond_Spurious(t)
    \/ \E t \in SemThreads : Cond_Return(t)
    \/ \E t \in SemThreads : Sem_Decrement(t)
    \/ \E t \in SemThreads : Post_Test(t)
    \/ \E t \in SemThreads : Post_Signal(t)
    \/ \E t \in SemThreads : Sem_Unlock(t)
FairSemaWaitPost ==
    \A t \in SemThreads :
        /\ WF_vars(Wait_Test(t) \/ Cond_Wait(t) \/ Sem_Decrement(t)
                   \/ Post_Test(t) \/ Post_Signal(t) \/ Sem_Unlock(t))
        /\ SF_vars(Sem_Lock(t) \/ Cond_Return(t))
SpecSemaFair == InitSema /\ [][NextSemaWaitPost]_vars /\ FairSemaWaitPost

\* several threads call the methods of one wxThread object
NextThread ==
    \/ \E c \in Callers : Create_Call(c)
    \/ \E c \in Callers : Run_Call(c)
    \/ \E c \in Callers : TWait_Call(c)
    \/ \E c \in Callers : Delete_Call(c)
    \/ \E c \in Callers : CS_Enter(c)
    \/ \E c \in Callers : Create_Test(c)
    \/ \E c \in Callers : Create_Detach(c)
    \/ \E c \in Callers : Create_Spawn(c)
    \/ \E c \in Callers : Create_Fail(c)
    \/ \E c \in Callers : Run_SetState(c)
    \/ \E c \in Callers : Run_SignalRun(c)
    \/ \E c \in Callers : CS_Leave(c)
    \/ \E c \in Callers : TWait_GuiLeave(c)
    \/ \E c \in Callers : TWait_Test(c)
    \/ \E c \in Callers : TWait_Join(c)
    \/ \E c \in Callers : TWait_Leave(c)
    \/ \E c \in Callers : TWait_GuiEnter(c)
    \/ \E c \in Callers : TWait_Return(c)
    \/ \E c \in Callers : Delete_Cancel(c)
    \/ \E c \in Callers : Delete_Switch(c)
    \/ \E c \in Callers : Delete_SetState(c)
    \/ \E i \in OsIds : OS_Start(i)
    \/ \E i \in OsIds : OS_SemRunWait(i)
    \/ \E i \in OsIds : OS_Test(i)
    \/ \E i \in OsIds : OS_CallEntry(i)
    \/ \E i \in OsIds : OS_EntryReturn(i)
    \/ \E i \in OsIds : OS_SetExited(i)
    \/ \E i \in OsIds : OS_Schedule(i)
    \/ \E i \in OsIds : OS_Exit(i)
    \/ \E i \in OsIds : OS_Deleted(i)
    \/ \E i \in OsIds : OS_Delete(i)
SpecThread == InitThread /\ [][NextThread]_vars

\* longest sequence of Create() and Run() calls that is explored
MaxCreateCalls == 2

\* Create() and Run() called in any order by any caller, on a thread of
\* either kind, up to the moment the OS thread has set STATE_EXITED
NextThreadCreate ==
    \/ \E c \in Callers : tcalls < MaxCreateCalls /\ Create_Call(c)
    \/ \E c \in Callers : tcalls < MaxCreateCalls /\ Run_Call(c)
    \/ \E c \in Callers : CS_Enter(c)
    \/ \E c \in Callers : Create_Test(c)
    \/ \E c \in Callers : Create_Detach(c)
    \/ \E c \in Callers : Create_Spawn(c)
    \/ \E c \in Callers : Create_Fail(c)
    \/ \E c \in Callers : Run_SetState(c)
    \/ \E c \in Callers : Run_SignalRun(c)
    \/ \E c \in Callers : CS_Leave(c)
    \/ \E i \in OsIds : OS_Start(i)
    \/ \E i \in OsIds : OS_SemRunWait(i)
    \/ \E i \in OsIds : OS_Test(i)
    \/ \E i \in OsIds : OS_CallEntry(i)
    \/ \E i \in OsIds : OS_EntryReturn(i)
    \/ \E i \in OsIds : OS_SetExited(i)
SpecThreadCreate == InitThread /\ [][NextThreadCreate]_vars

\* the steps inside Run(), Wait() and Delete(), and those of a worker whose
\* Entry() takes the GUI mutex, gives it back and returns
GuiSteps ==
    \/ \E c \in Callers : CS_Enter(c)
    \/ \E c \in Callers : Create_Test(c)
    \/ \E c \in Callers : Create_Spawn(c)
    \/ \E c \in Callers : Run_SetState(c)
    \/ \E c \in Callers : Run_SignalRun(c)
    \/ \E c \in Callers : CS_Leave(c)
    \/ \E c \in Callers : Delete_Cancel(c)
    \/ \E c \in Callers : Delete_Switch(c)
    \/ \E c \in Callers : TWait_GuiLeave(c)
    \/ \E c \in Callers : TWait_Test(c)
    \/ \E c \in Callers : TWait_Join(c)
    \/ \E c \in Callers : TWait_Leave(c)
    \/ \E c \in Callers : TWait_GuiEnter(c)
    \/ \E c \in Callers : TWait_Return(c)
    \/ \E i \in OsIds : OS_Start(i)
    \/ \E i \in OsIds : OS_SemRunWait(i)
    \/ \E i \in OsIds : OS_Test(i)
    \/ \E i \in OsIds : OS_CallEntry(i)
    \/ \E i \in OsIds : Entry_GuiEnter(i)
    \/ \E i \in OsIds : Entry_GuiLeave(i)
    \/ \E i \in OsIds : os_pc[i] = "worked" /\ OS_EntryReturn(i)
    \/ \E i \in OsIds : OS_SetExited(i)
    \/ \E i \in OsIds : OS_Schedule(i)
    \/ \E i \in OsIds : OS_Exit(i)

\* A joinable worker that needs the GUI mutex: one Run(), then Wait() or
\* Delete(rc) by the main thread, which holds the mutex, or by another one.
\* The scheduler lets every thread that can take a step take it.
NextThreadGui ==
    \/ \E c \in Callers : tcalls = 0 /\ Run_Call(c)
    \/ \E c \in Callers : RunReturned /\ TWait_Call(c)
    \/ \E c \in Callers : RunReturned /\ Delete_Call(c)
    \/ \E c \in Callers : Create_Fail(c)
    \/ GuiSteps
SpecThreadGui == InitJoinable /\ [][NextThreadGui]_vars /\ WF_vars(GuiSteps)

\* longest sequence of Run(), Pause() and Kill() calls that is explored
MaxKillCalls == 3

\* A thread of either kind, in a build with or without cleanup functions,
\* that is run at most once and paused and killed at any time by any caller,
\* up to the moment the OS thread calls wxThread::Exit
InitKill == MutexIdle /\ SemaIdle /\ ThreadInit /\ CalcIdle
NextThreadKill ==
    \/ \E c \in Callers :
          /\ tcalls < MaxKillCalls /\ runCalls = 0
          /\ \A d \in Callers : ~(cop[d] = "Run" /\ cpc[d] # "idle")
          /\ Run_Call(c)
    \/ \E c \in Callers : tcalls < MaxKillCalls /\ Call(c, "Pause", "pause")
    \/ \E c \in Callers : tcalls < MaxKillCalls /\ Call(c, "Kill", "kill")
    \/ \E c \in Callers : CS_Enter(c)
    \/ \E c \in Callers : Create_Test(c)
    \/ \E c \in Callers : Create_Detach(c)
    \/ \E c \in Callers : Create_Spawn(c)
    \/ \E c \in Callers : Create_Fail(c)
    \/ \E c \in Callers : Run_SetState(c)
    \/ \E c \in Callers : Run_SignalRun(c)
    \/ \E c \in Callers : CS_Leave(c)
    \/ \E c \in Callers : Pause_Do(c)
    \/ \E c \in Callers : Kill_Switch(c)
    \/ \E c \in Callers : Resume_Do(c)
    \/ \E c \in Callers : Kill_Cancel(c)
    \/ \E c \in Callers : Kill_DeleteThread(c)
    \/ \E c \in Callers : Kill_Deleted(c)
    \/ \E i \in OsIds : OS_Start(i)
    \/ \E i \in OsIds : OS_SemRunWait(i)
    \/ \E i \in OsIds : OS_Test(i)
    \/ \E i \in OsIds : OS_CallEntry(i)
    \/ \E i \in OsIds : TestDestroy_Enter(i)
    \/ \E i \in OsIds : TestDestroy_Test(i)
    \/ \E i \in OsIds : Pause_Wait(i)
    \/ \E i \in OsIds : TestDestroy_Return(i)
    \/ \E i \in OsIds : OS_Cancelled(i)
    \/ \E i \in OsIds : OS_EntryReturn(i)
    \/ \E i \in OsIds : OS_SetExited(i)
SpecThreadKill == InitKill /\ [][NextThreadKill]_vars

\* longest sequence of Run(), Pause() and Resume() calls that is explored
MaxPauseCalls == 4

\* the steps inside Run(), Pause() and Resume(), and those of the OS thread,
\* whose code passes check-points
PauseSteps ==
    \/ \E c \in Callers : CS_Enter(c)
    \/ \E c \in Callers : Create_Test(c)
    \/ \E c \in Callers : Create_Spawn(c)
    \/ \E c \in Callers : Create_Fail(c)
    \/ \E c \in Callers : Run_SetState(c)
    \/ \E c \in Callers : Run_SignalRun(c)
    \/ \E c \in Callers : CS_Leave(c)
    \/ \E c \in Callers : Pause_Do(c)
    \/ \E c \in Callers : Resume_Do(c)
    \/ \E i \in OsIds : OS_Start(i)
    \/ \E i \in OsIds : OS_SemRunWait(i)
    \/ \E i \in OsIds : OS_Test(i)
    \/ \E i \in OsIds : OS_CallEntry(i)
    \/ \E i \in OsIds : TestDestroy_Enter(i)
    \/ \E i \in OsIds : TestDestroy_Test(i)
    \/ \E i \in OsIds : Pause_Wait(i)
    \/ \E i \in OsIds : TestDestroy_Return(i)
    \/ \E i \in OsIds : OS_EntryReturn(i)
    \/ \E i \in OsIds : OS_SetExited(i)
    \/ \E i \in OsIds : OS_Schedule(i)
    \/ \E i \in OsIds : OS_Exit(i)

\* A joinable thread that is run at most once, and paused and resumed at
\* any time by any caller
NextThreadPause ==
    \/ \E c \in Callers :
          /\ tcalls < MaxPauseCalls /\ runCalls = 0
          /\ \A d \in Callers : ~(cop[d] = "Run" /\ cpc[d] # "idle")
          /\ Run_Call(c)
    \/ \E c \in Callers : tcalls < MaxPauseCalls /\ Call(c, "Pause", "pause")
    \/ \E c \in Callers :
          tcalls < MaxPauseCalls /\ Call(c, "Resume", "resume")
    \/ PauseSteps
SpecThreadPause == InitJoinable /\ [][NextThreadPause]_vars

\* A joinable thread used as intended: one Run(), and Wait() or Delete(rc)
\* only once Run() has returned with the thread started.
\* the steps inside Run(), Wait() and Delete(), and those of the OS thread
JoinSteps ==
    \/ \E c \in Callers : Delete_Cancel(c)
    \/ \E c \in Callers : Delete_Switch(c)
    \/ \E c \in Callers : CS_Enter(c)
    \/ \E c \in Callers : Create_Test(c)
    \/ \E c \in Callers : Create_Spawn(c)
    \/ \E c \in Callers : Run_SetState(c)
    \/ \E c \in Callers : Run_SignalRun(c)
    \/ \E c \in Callers : CS_Leave(c)
    \/ \E c \in Callers : TWait_GuiLeave(c)
    \/ \E c \in Callers : TWait_Test(c)
    \/ \E c \in Callers : TWait_Join(c)
    \/ \E c \in Callers : TWait_Leave(c)
    \/ \E c \in Callers : TWait_GuiEnter(c)
    \/ \E c \in Callers : TWait_Return(c)
    \/ \E i \in OsIds : OS_Start(i)
    \/ \E i \in OsIds : OS_SemRunWait(i)
    \/ \E i \in OsIds : OS_Test(i)
    \/ \E i \in OsIds : OS_CallEntry(i)
    \/ \E i \in OsIds : OS_EntryReturn(i)
    \/ \E i \in OsIds : OS_SetExited(i)
    \/ \E i \in OsIds : OS_Schedule(i)
    \/ \E i \in OsIds : OS_Exit(i)

NextThreadJoin ==
    \/ \E c \in Callers : tcalls = 0 /\ Run_Call(c)
    \/ \E c \in Callers : RunReturned /\ TWait_Call(c)
    \/ \E c \in Callers : RunReturned /\ Delete_Call(c)
    \/ \E c \in Callers : Create_Fail(c)
    \/ JoinSteps

\* The scheduler lets every thread that can take a step take it, and the
\* user's Entry() returns.
SpecThreadJoin ==
    InitJoinable /\ [][NextThreadJoin]_vars /\ WF_vars(JoinSteps)

\* the steps inside Run(), Pause(), Kill() and Wait(), and those of the OS
\* thread, whose code passes check-points and cancellation points
KillJoinSteps ==
    \/ \E c \in Callers : CS_Enter(c)
    \/ \E c \in Callers : Create_Test(c)
    \/ \E c \in Callers : Create_Spawn(c)
    \/ \E c \in Callers : Run_SetState(c)
    \/ \E c \in Callers : Run_SignalRun(c)
    \/ \E c \in Callers : CS_Leave(c)
    \/ \E c \in Callers : Pause_Do(c)
    \/ \E c \in Callers : Kill_Switch(c)
    \/ \E c \in Callers : Resume_Do(c)
    \/ \E c \in Callers : Kill_Cancel(c)
    \/ \E c \in Callers : TWait_GuiLeave(c)
    \/ \E c \in Callers : TWait_Test(c)
    \/ \E c \in Callers : TWait_Join(c)
    \/ \E c \in Callers : TWait_Leave(c)
    \/ \E c \in Callers : TWait_GuiEnter(c)
    \/ \E c \in Callers : TWait_Return(c)
    \/ \E i \in OsIds : OS_Start(i)
    \/ \E i \in OsIds : OS_SemRunWait(i)
    \/ \E i \in OsIds : OS_Test(i)
    \/ \E i \in OsIds : OS_CallEntry(i)
    \/ \E i \in OsIds : TestDestroy_Enter(i)
    \/ \E i \in OsIds : TestDestroy_Test(i)
    \/ \E i \in OsIds : Pause_Wait(i)
    \/ \E i \in OsIds : TestDestroy_Return(i)
    \/ \E i \in OsIds : OS_Cancelled(i)
    \/ \E i \in OsIds : OS_EntryReturn(i)
    \/ \E i \in OsIds : OS_SetExited(i)
    \/ \E i \in OsIds : OS_Schedule(i)
    \/ \E i \in OsIds : OS_Exit(i)

\* A joinable thread that is run once, paused and killed at any time, and
\* waited for only after a Kill() has returned wxTHREAD_NO_ERROR.  The
\* scheduler lets every thread that can take a step take it.
NextThreadKillJoin ==
    \/ \E c \in Callers : tcalls = 0 /\ Run_Call(c)
    \/ \E c \in Callers :
          tcalls < MaxKillCalls /\ RunReturned /\ Call(c, "Pause", "pause")
    \/ \E c \in Callers :
          tcalls < MaxKillCalls /\ RunReturned /\ Call(c, "Kill", "kill")
    \/ \E c \in Callers : tcalls < MaxKillCalls /\ killed /\ TWait_Call(c)
    \/ \E c \in Callers : Create_Fail(c)
    \/ KillJoinSteps
SpecThreadKillJoin ==
    InitJoinable /\ [][NextThreadKillJoin]_vars /\ WF_vars(KillJoinSteps)

\* longest sequence of calls explored when every method may be called
MaxAllCalls == 2

\* the thread that controls the worker
Controller == CHOOSE c \in Callers : \A d \in Callers : c <= d

\* the controlling thread calls the methods one after another
AllCall(c) ==
    /\ tcalls < MaxAllCalls
    /\ c = Controller
    /\ cpc[c] = "idle"

\* A thread of either kind, in a build with or without cleanup functions:
\* its controlling thread calls any method at any time
NextThreadAll ==
    \/ \E c \in Callers : AllCall(c) /\ Create_Call(c)
    \/ \E c \in Callers : AllCall(c) /\ Run_Call(c)
    \/ \E c \in Callers : AllCall(c) /\ Call(c, "Pause", "pause")
    \/ \E c \in Callers : AllCall(c) /\ Call(c, "Resume", "resume")
    \/ \E c \in Callers : AllCall(c) /\ TWait_Call(c)
    \/ \E c \in Callers : AllCall(c) /\ Delete_Call(c)
    \/ \E c \in Callers : AllCall(c) /\ Call(c, "Kill", "kill")
    \/ \E c \in Callers : CS_Enter(c)
    \/ \E c \in Callers : Create_Test(c)
    \/ \E c \in Callers : Create_Detach(c)
    \/ \E c \in Callers : Create_Spawn(c)
    \/ \E c \in Callers : Create_Fail(c)
    \/ \E c \in Callers : Run_SetState(c)
    \/ \E c \in Callers : Run_SignalRun(c)
    \/ \E c \in Callers : CS_Leave(c)
    \/ \E c \in Callers : Pause_Do(c)
    \/ \E c \in Callers : Resume_Do(c)
    \/ \E c \in Callers : TWait_GuiLeave(c)
    \/ \E c \in Callers : TWait_Test(c)
    \/ \E c \in Callers : TWait_Join(c)
    \/ \E c \in Callers : TWait_Leave(c)
    \/ \E c \in Callers : TWait_GuiEnter(c)
    \/ \E c \in Callers : TWait_Return(c)
    \/ \E c \in Callers : Delete_Cancel(c)
    \/ \E c \in Callers : Delete_Switch(c)
    \/ \E c \in Callers : Delete_SetState(c)
    \/ \E c \in Callers : Kill_Switch(c)
    \/ \E c \in Callers : Kill_Cancel(c)
    \/ \E c \in Callers : Kill_DeleteThread(c)
    \/ \E c \in Callers : Kill_Deleted(c)
    \/ \E i \in OsIds : OS_Start(i)
    \/ \E i \in OsIds : OS_SemRunWait(i)
    \/ \E i \in OsIds : OS_Test(i)
    \/ \E i \in OsIds : OS_CallEntry(i)
    \/ \E i \in OsIds : TestDestroy_Enter(i)
    \/ \E i \in OsIds : TestDestroy_Test(i)
    \/ \E i \in OsIds : Pause_Wait(i)
    \/ \E i \in OsIds : TestDestroy_Return(i)
    \/ \E i \in OsIds : OS_Cancelled(i)
    \/ \E i \in OsIds : OS_EntryReturn(i)
    \/ \E i \in OsIds : OS_SetExited(i)
    \/ \E i \in OsIds : OS_Schedule(i)
    \/ \E i \in OsIds : OS_Exit(i)
    \/ \E i \in OsIds : OS_Deleted(i)
    \/ \E i \in OsIds : OS_Delete(i)
SpecThreadAll == InitKill /\ [][NextThreadAll]_vars

\* longest sequence of Run(), Pause() and Delete() calls that is explored
MaxDeleteCalls == 3

\* the steps inside Run(), Pause() and Delete(), and those of a worker whose
\* Entry() passes check-points
DeleteSteps ==
    \/ \E c \in Callers : CS_Enter(c)
    \/ \E c \in Callers : Create_Test(c)
    \/ \E c \in Callers : Create_Spawn(c)
    \/ \E c \in Callers : Run_SetState(c)
    \/ \E c \in Callers : Run_SignalRun(c)
    \/ \E c \in Callers : CS_Leave(c)
    \/ \E c \in Callers : Pause_Do(c)
    \/ \E c \in Callers : Delete_Cancel(c)
    \/ \E c \in Callers : Delete_Switch(c)
    \/ \E c \in Callers : Delete_SetState(c)
    \/ \E c \in Callers : TWait_GuiLeave(c)
    \/ \E c \in Callers : TWait_Test(c)
    \/ \E c \in Callers : TWait_Join(c)
    \/ \E c \in Callers : TWait_Leave(c)
    \/ \E c \in Callers : TWait_GuiEnter(c)
    \/ \E c \in Callers : TWait_Return(c)
    \/ \E i \in OsIds : OS_Start(i)
    \/ \E i \in OsIds : OS_SemRunWait(i)
    \/ \E i \in OsIds : OS_Test(i)
    \/ \E i \in OsIds : OS_CallEntry(i)
    \/ \E i \in OsIds : TestDestroy_Enter(i)
    \/ \E i \in OsIds : TestDestroy_Test(i)
    \/ \E i \in OsIds : Pause_Wait(i)
    \/ \E i \in OsIds : TestDestroy_Return(i)
    \/ \E i \in OsIds : OS_EntryReturn(i)
    \/ \E i \in OsIds : OS_SetExited(i)
    \/ \E i \in OsIds : OS_Schedule(i)
    \/ \E i \in OsIds : OS_Exit(i)

\* no Delete() has been called
NoDelete == \A c \in Callers : cop[c] # "Delete"

\* A joinable thread is run, then paused and deleted by any callers; nobody
\* pauses it again once a Delete() was called
NextThreadDelete ==
    \/ \E c \in Callers : tcalls = 0 /\ Run_Call(c)
    \/ \E c \in Callers :
          /\ tcalls < MaxDeleteCalls /\ RunReturned /\ NoDelete
          /\ Call(c, "Pause", "pause")
    \/ \E c \in Callers :
          tcalls < MaxDeleteCalls /\ RunReturned /\ Delete_Call(c)
    \/ \E c \in Callers : Create_Fail(c)
    \/ DeleteSteps

\* The scheduler lets every thread that can take a step take it, and the
\* user's Entry() does not pass check-points for ever: it returns.
SpecThreadDelete ==
    /\ InitJoinable /\ [][NextThreadDelete]_vars
    /\ WF_vars(DeleteSteps)
    /\ SF_vars(\E i \in OsIds : OS_EntryReturn(i))

\* longest sequence of Run(), Kill() and wxThreadModule::OnExit calls that
\* is explored
MaxExitCalls == 3

\* A detached thread that is run once and ends by returning from Entry() or
\* by being killed, while the main thread may end the program
NextThreadExit ==
    \/ \E c \in Callers : tcalls = 0 /\ Run_Call(c)
    \/ \E c \in Callers : tcalls < MaxExitCalls /\ Call(c, "Kill", "kill")
    \/ \E c \in Callers : tcalls < MaxExitCalls /\ Shut_Call(c)
    \/ \E c \in Callers : CS_Enter(c)
    \/ \E c \in Callers : Create_Test(c)
    \/ \E c \in Callers : Create_Detach(c)
    \/ \E c \in Callers : Create_Spawn(c)
    \/ \E c \in Callers : Create_Fail(c)
    \/ \E c \in Callers : Run_SetState(c)
    \/ \E c \in Callers : Run_SignalRun(c)
    \/ \E c \in Callers : CS_Leave(c)
    \/ \E c \in Callers : Kill_Switch(c)
    \/ \E c \in Callers : Kill_Cancel(c)
    \/ \E c \in Callers : Shut_Barrier(c)
    \/ \E c \in Callers : Shut_Spurious(c)
    \/ \E c \in Callers : Shut_Leave(c)
    \/ \E c \in Callers : Shut_Count(c)
    \/ \E c \in Callers : Delete_Cancel(c)
    \/ \E c \in Callers : Delete_Switch(c)
    \/ \E c \in Callers : Delete_SetState(c)
    \/ \E c \in Callers : Shut_Cleanup(c)
    \/ \E i \in OsIds : OS_Start(i)
    \/ \E i \in OsIds : OS_SemRunWait(i)
    \/ \E i \in OsIds : OS_Test(i)
    \/ \E i \in OsIds : OS_CallEntry(i)
    \/ \E i \in OsIds : OS_Cancelled(i)
    \/ \E i \in OsIds : OS_EntryReturn(i)
    \/ \E i \in OsIds : OS_SetExited(i)
    \/ \E i \in OsIds : OS_Schedule(i)
    \/ \E i \in OsIds : OS_Exit(i)
    \/ \E i \in OsIds : OS_Deleted(i)
SpecThreadExit == InitDetached /\ [][NextThreadExit]_vars

\* A thread of either kind that is created, run and paused at any time,
\* while the main thread may end the program
NextThreadShutdown ==
    \/ \E c \in Callers : tcalls < MaxExitCalls /\ Create_Call(c)
    \/ \E c \in Callers : tcalls < MaxExitCalls /\ Run_Call(c)
    \/ \E c \in Callers : tcalls < MaxExitCalls /\ Call(c, "Pause", "pause")
    \/ \E c \in Callers : tcalls < MaxExitCalls /\ Shut_Call(c)
    \/ \E c \in Callers : CS_Enter(c)
    \/ \E c \in Callers : Create_Test(c)
    \/ \E c \in Callers : Create_Detach(c)
    \/ \E c \in Callers : Create_Spawn(c)
    \/ \E c \in Callers : Create_Fail(c)
    \/ \E c \in Callers : Run_SetState(c)
    \/ \E c \in Callers : Run_SignalRun(c)
    \/ \E c \in Callers : CS_Leave(c)
    \/ \E c \in Callers : Pause_Do(c)
    \/ \E c \in Callers : Shut_Barrier(c)
    \/ \E c \in Callers : Shut_Spurious(c)
    \/ \E c \in Callers : Shut_Leave(c)
    \/ \E c \in Callers : Shut_Count(c)
    \/ \E c \in Callers : Delete_Cancel(c)
    \/ \E c \in Callers : Delete_Switch(c)
    \/ \E c \in Callers : Delete_SetState(c)
    \/ \E c \in Callers : TWait_GuiLeave(c)
    \/ \E c \in Callers : TWait_Test(c)
    \/ \E c \in Callers : TWait_Join(c)
    \/ \E c \in Callers : TWait_Leave(c)
    \/ \E c \in Callers : TWait_GuiEnter(c)
    \/ \E c \in Callers : TWait_Return(c)
    \/ \E c \in Callers : Shut_Cleanup(c)
    \/ \E i \in OsIds : OS_Start(i)
    \/ \E i \in OsIds : OS_SemRunWait(i)
    \/ \E i \in OsIds : OS_Test(i)
    \/ \E i \in OsIds : OS_CallEntry(i)
    \/ \E i \in OsIds : TestDestroy_Enter(i)
    \/ \E i \in OsIds : TestDestroy_Test(i)
    \/ \E i \in OsIds : Pause_Wait(i)
    \/ \E i \in OsIds : TestDestroy_Return(i)
    \/ \E i \in OsIds : OS_EntryReturn(i)
    \/ \E i \in OsIds : OS_SetExited(i)
    \/ \E i \in OsIds : OS_Schedule(i)
    \/ \E i \in OsIds : OS_Exit(i)
    \/ \E i \in OsIds : OS_Deleted(i)
    \/ \E i \in OsIds : OS_Delete(i)
SpecThreadShutdown == InitThread /\ [][NextThreadShutdown]_vars

(***************************************************************************)
(* Properties                                                              *)
(***************************************************************************)

\* C1: in a single-threaded sequence of calls on a Default mutex, a Lock()
\* issued while the thread holds the mutex returns DEAD_LOCK at once and
\* changes neither the tracked owner nor the native lock.
C1_SelfLockDeadLock ==
    [][\A t \in SoleThread :
          (m_type = "wxMUTEX_DEFAULT" /\ m_mutex = t /\ Lock_Call(t))
          => /\ mres'[t] = "wxMUTEX_DEAD_LOCK"
             /\ mpc'[t] = "idle"
             /\ UNCHANGED <<m_owningThread, m_mutex, m_lockDepth>>]_vars

\* Lock, Unlock, Lock, and a second Lock has returned DEAD_LOCK to the holder
C1_Witness ==
    /\ m_type = "wxMUTEX_DEFAULT"
    /\ mop[1] = "Lock" /\ mres[1] = "wxMUTEX_DEAD_LOCK" /\ mpc[1] = "idle"
    /\ m_mutex = 1 /\ m_owningThread = 1
    /\ mcalls >= 4

\* C2: with several threads, the holder of a Default mutex that calls Lock()
\* is never left in the native lock of the mutex it holds.
C2_HolderNeverBlocked ==
    \A t \in MutexThreads :
        ~(m_type = "wxMUTEX_DEFAULT" /\ mpc[t] = "lock_native" /\ m_mutex = t)

\* C3: the count of a bounded semaphore stays within 0..maxcount.
C3_CountInBounds ==
    m_maxcount > 0 => (0 <= m_count /\ m_count <= m_maxcount)

\* a (0,1) semaphore is full again after a post, a wait and a second post
C3_Witness ==
    /\ m_maxcount = 1 /\ s_init = 0 /\ m_count = m_maxcount
    /\ posts_ok >= 2 /\ waits_ok >= 1

\* C4: successful waits never outnumber the initial count plus the successful
\* posts, and when no method is in progress the count is exactly the
\* difference (for a (0,1) semaphore: posts - waits = count).
C4_PostsMatchWaits ==
    /\ waits_ok <= s_init + posts_ok
    /\ SemQuiet => m_count = s_init + posts_ok - waits_ok

\* a (0,1) semaphore at rest after two posts and two waits
C4_Witness ==
    /\ s_init = 0 /\ m_maxcount = 1 /\ SemQuiet
    /\ posts_ok = 2 /\ waits_ok = 2 /\ m_count = 0

\* a thread is inside Wait()
InWait(t) == sop[t] = "Wait" /\ spc[t] # "idle"

\* a thread is blocked in the condition of Wait() while the count is positive
WaiterBlockedOnPositive ==
    (\E t \in SemThreads : t \in s_cond /\ sop[t] = "Wait") /\ m_count > 0

C6_OverflowLeavesCount ==
    /\ [](\A t \in SemThreads :
             (spc[t] = "unlock" /\ sres[t] = "wxSEMA_OVERFLOW")
                => m_count = m_maxcount)
    /\ [][\A t \in SemThreads :
             (/\ sop[t] = "Post" /\ spc[t] = "test" /\ spc'[t] # "test"
              /\ m_maxcount > 0 /\ m_count = m_maxcount)
             => /\ sres'[t] = "wxSEMA_OVERFLOW"
                /\ spc'[t] = "unlock"
                /\ m_count' = m_count
                /\ s_cond' = s_cond
                /\ \A u \in SemThreads \ {t} : spc'[u] = spc[u]]_vars

\* a Post() has returned OVERFLOW while another thread is blocked in its wait
C6_Witness ==
    /\ \E t \in SemThreads : spc[t] = "unlock" /\ sres[t] = "wxSEMA_OVERFLOW"
    /\ s_cond # {}

\* the semaphore was constructed with (0, 1)
Binary == s_init = 0 /\ m_maxcount = 1

\* C7: a (0,1) semaphore is a binary signal.  At most one successful post
\* is outstanding since the last successful wait, the count is that number,
\* TryWait() returns BUSY without touching the count when there is none and
\* consumes it otherwise, and a Post() while one is outstanding returns
\* OVERFLOW.
C7_BinarySignal ==
    /\ [](Binary =>
            /\ since \in {0, 1}
            /\ m_count = since
                 + (IF \E t \in SemThreads : spc[t] = "signal" THEN 1 ELSE 0))
    /\ [][Binary => \A t \in SemThreads :
            /\ (TryWait_Test(t) /\ since = 0)
                  => (sres'[t] = "wxSEMA_BUSY" /\ m_count' = m_count)
            /\ (TryWait_Test(t) /\ since = 1) => spc'[t] = "dec"
            /\ (Sem_Decrement(t) /\ sop[t] = "TryWait")
                  => (sres'[t] = "wxSEMA_NO_ERROR" /\ m_count' = 0 /\ since' = 0)
            /\ (Post_Test(t) /\ since = 1)
                  => (sres'[t] = "wxSEMA_OVERFLOW" /\ m_count' = m_count)]_vars

\* TryWait() has consumed the post of a (0,1) semaphore after an earlier
\* post / wait round
C7_Witness ==
    /\ Binary
    /\ \E t \in SemThreads :
          sop[t] = "TryWait" /\ spc[t] = "unlock" /\ sres[t] = "wxSEMA_NO_ERROR"
    /\ posts_ok = 2 /\ waits_ok = 2

\* C8: over any mix of Wait() and Delete() calls on a thread, the join is
\* decided at most once and every call that reports an exit code reports the
\* same one.
C8_JoinOnceSameCode ==
    joinCalls <= 1 /\ Cardinality(returned) <= 1

\* C9: the user entry function is only ever called after a Run() on the
\* thread.
C9_EntryAfterRun ==
    entryCalls > 0 => runCalls > 0

\* C10: once a Delete() has read the state New of a created thread, the
\* entry wrapper never calls the user entry function.
C10_DeletedNewNeverRuns ==
    sawNew => entryCalls = 0

\* what holds in every state of a joinable thread that was run once
C11_Safe ==
    /\ alive
    /\ entryCalls <= 1
    /\ \A i \in OsIds :
          os_pc[i] = "done" =>
             /\ m_state = "STATE_EXITED"
             /\ entryCalls = 1
             /\ os_status[i] \in EntryValues
    /\ returned # {} =>
          \E i \in OsIds :
             /\ os_pc[i] = "done"
             /\ returned = {os_status[i]}
             /\ m_exitcode = os_status[i]

\* C11: a joinable thread whose Entry() returns v, once Run() started it:
\* Entry() is executed once, the exit path leaves the object alive, the state
\* becomes EXITED, and every Wait() that returns yields v.
C11_JoinableRunsOnce ==
    /\ []C11_Safe
    /\ (runCalls > 0) ~> (m_state = "STATE_EXITED" /\ entryCalls = 1)
C11_Witness ==
    /\ \A c \in Callers : cop[c] = "Wait" /\ cpc[c] = "idle"
    /\ returned # {}
    /\ tcalls > 2

\* C12: a Delete(rc) on a joinable thread that has been run returns only
\* after the OS thread was joined and the exit code was written to rc,
\* whether it found the thread running, paused or already exited.
C12_DeleteJoinsAndStores ==
    \A c \in Callers :
       ( /\ cop[c] = "Delete" /\ cpc[c] = "idle"
         /\ alive /\ ~t_isDetached /\ runCalls > 0
         /\ c_state[c] \in {"STATE_RUNNING", "STATE_PAUSED", "STATE_EXITED"} )
       => (c_rc[c] # {} /\ os_joined # {})

\* C13: when the wrapper finds the thread cancelled while still NEW, only a
\* detached object is destroyed; a joinable one stays alive.
C13_JoinableLeftAlive == ~t_isDetached => alive

\* C17: Create() on a thread whose state is not NEW yields wxTHREAD_RUNNING
\* and starts no OS thread; when pthread_create fails it yields NO_RESOURCE
\* and the state is EXITED; when it succeeds the state is still NEW and
\* m_created is set.  A Run() whose implicit Create() fails hands that error
\* back: it neither sets STATE_RUNNING nor posts m_semRun.
C17_CreateOutcomes ==
    [][\A c \in Callers :
         /\ (cpc[c] = "create" /\ cpc'[c] # "create" /\ alive
                /\ m_state # "STATE_NEW")
            => /\ cres'[c] = "wxTHREAD_RUNNING" /\ cpc'[c] = "leave"
               /\ os_pc' = os_pc /\ tobj' = tobj /\ runCalls' = runCalls
         /\ (cpc[c] = "spawn" /\ cpc'[c] # "spawn")
            => \/ /\ cres'[c] = "wxTHREAD_NO_RESOURCE" /\ cpc'[c] = "leave"
                  /\ m_state' = "STATE_EXITED"
                  /\ os_pc' = os_pc /\ m_semRun' = m_semRun
                  /\ m_created' = m_created /\ runCalls' = runCalls
               \/ /\ cres'[c] # "wxTHREAD_NO_RESOURCE"
                  /\ \E i \in OsIds : os_pc[i] = "none" /\ os_pc'[i] = "start"
                  /\ m_created'
                  /\ m_state' = m_state /\ (alive => m_state = "STATE_NEW")
         /\ (cpc[c] = "leave" /\ cpc'[c] # "leave")
            => /\ cpc'[c] = "idle" /\ cres'[c] = cres[c]
               /\ tobj' = tobj /\ os_pc' = os_pc /\ runCalls' = runCalls
      ]_vars
C17_Witness ==
    \E c, d \in Callers :
       /\ cpc[c] = "idle" /\ cop[c] = "Run"
       /\ cres[c] = "wxTHREAD_NO_RESOURCE"
       /\ cpc[d] = "idle" /\ cop[d] = "Create"
       /\ cres[d] = "wxTHREAD_RUNNING"
       /\ runCalls = 0 /\ m_semRun = 0 /\ m_state = "STATE_EXITED"

\* C18: Pause() on a thread that is not RUNNING yields NOT_RUNNING and
\* changes nothing; on a RUNNING thread it sets STATE_PAUSED and yields
\* NO_ERROR in the same step, leaving m_semSuspend and the really-paused flag
\* alone and not waiting for the thread.
C18_PauseOutcomes ==
    [][\A c \in Callers :
         (cpc[c] = "pause" /\ cpc'[c] # "pause")
         => /\ cpc'[c] = "idle"
            /\ os_pc' = os_pc
            /\ m_semSuspend' = m_semSuspend /\ m_isPaused' = m_isPaused
            /\ IF m_state = "STATE_RUNNING"
               THEN m_state' = "STATE_PAUSED" /\ cres'[c] = "wxTHREAD_NO_ERROR"
               ELSE tobj' = tobj /\ cres'[c] = "wxTHREAD_NOT_RUNNING"
      ]_vars
C18_Witness ==
    \E c, d \in Callers, i \in OsIds :
       /\ cop[c] = "Pause" /\ cpc[c] = "idle" /\ cres[c] = "wxTHREAD_NO_ERROR"
       /\ cop[d] = "Pause" /\ cpc[d] = "idle"
       /\ cres[d] = "wxTHREAD_NOT_RUNNING"
       /\ m_state = "STATE_PAUSED" /\ ~m_isPaused /\ os_pc[i] = "running"

\* C19: Resume() yields NO_ERROR and changes nothing on an EXITED thread,
\* yields MISC_ERROR and changes nothing on a NEW or RUNNING one; on a PAUSED
\* thread it sets STATE_RUNNING and yields NO_ERROR, and it posts m_semSuspend
\* once and clears the really-paused flag exactly when that flag was set.
C19_ResumeOutcomes ==
    [][\A c \in Callers :
         (cpc[c] = "resume" /\ cpc'[c] # "resume")
         => /\ cpc'[c] = "idle"
            /\ os_pc' = os_pc
            /\ CASE m_state = "STATE_EXITED" ->
                      tobj' = tobj /\ cres'[c] = "wxTHREAD_NO_ERROR"
                 [] m_state \in {"STATE_NEW", "STATE_RUNNING"} ->
                      tobj' = tobj /\ cres'[c] = "wxTHREAD_MISC_ERROR"
                 [] m_state = "STATE_PAUSED" ->
                      /\ m_state' = "STATE_RUNNING"
                      /\ cres'[c] = "wxTHREAD_NO_ERROR"
                      /\ ~m_isPaused'
                      /\ m_semSuspend' =
                            IF m_isPaused THEN m_semSuspend + 1
                            ELSE m_semSuspend
      ]_vars
C19_Witness ==
    \E c \in Callers, i \in OsIds :
       /\ cop[c] = "Resume" /\ cpc[c] = "idle"
       /\ cres[c] = "wxTHREAD_NO_ERROR"
       /\ m_state = "STATE_RUNNING" /\ m_semSuspend = 1
       /\ os_pc[i] = "suspended"

\* m_semSuspend is posted only for a thread that waits at it, and a thread
\* waits at it only while PAUSED and really paused
C16_Gate ==
    /\ m_semSuspend > 0 =>
          ~m_isPaused /\ \E i \in OsIds : os_pc[i] = "suspended"
    /\ \A i \in OsIds :
          (os_pc[i] = "suspended" /\ m_semSuspend = 0)
          => (m_state = "STATE_PAUSED" /\ m_isPaused)

\* C16: when a RUNNING thread is paused and resumed before it reaches a
\* check-point, Resume() posts nothing (m_semSuspend stays 0) and the state is
\* RUNNING again; a check-point that finds the thread not PAUSED returns
\* without blocking, and a thread waits at the pause gate only while the
\* thread is PAUSED with the really-paused flag set.
C16_PauseResumeBeforeCheck ==
    /\ []C16_Gate
    /\ [][\A c \in Callers, i \in OsIds :
            /\ (cpc[c] = "resume" /\ cpc'[c] # "resume"
                   /\ m_state = "STATE_PAUSED" /\ ~m_isPaused
                   /\ \A j \in OsIds : os_pc[j] # "suspended")
               => /\ m_semSuspend = 0 /\ m_semSuspend' = 0
                  /\ m_state' = "STATE_RUNNING"
            /\ (os_pc[i] = "check" /\ os_pc'[i] # "check"
                   /\ m_state # "STATE_PAUSED")
               => os_pc'[i] = "running" /\ m_semSuspend' = m_semSuspend
        ]_vars
C16_Witness ==
    \E c, d \in Callers, i \in OsIds :
       /\ cop[c] = "Pause" /\ cpc[c] = "idle" /\ cres[c] = "wxTHREAD_NO_ERROR"
       /\ cop[d] = "Resume" /\ cpc[d] = "idle"
       /\ cres[d] = "wxTHREAD_NO_ERROR"
       /\ m_state = "STATE_RUNNING" /\ m_semSuspend = 0 /\ ~m_isPaused
       /\ os_pc[i] = "check"

\* where the main thread holds gs_mutexGui, and that nobody else among the
\* callers does
C14_Held ==
    /\ cpc[MainThread] \in {"lock", "join", "joined", "guienter"}
          => MainThread \notin gs_mutexGui
    /\ cpc[MainThread] \in {"idle", "exitcode"} => MainThread \in gs_mutexGui
    /\ \A c \in Callers \ {MainThread} : c \notin gs_mutexGui

\* C14: the main thread does not hold gs_mutexGui while it takes the join
\* lock and waits in pthread_join inside Wait(): it gave the mutex back
\* before, and it holds it again when Wait() returns; a Wait() of another
\* thread neither releases nor acquires the mutex.
C14_GuiLeftDuringJoin ==
    /\ []C14_Held
    /\ [][\A c \in Callers \ {MainThread} :
            cpc'[c] # cpc[c] => gs_mutexGui' = gs_mutexGui]_vars
C14_Witness ==
    \E c \in Callers \ {MainThread}, i \in OsIds :
       /\ cop[MainThread] = "Wait" /\ cpc[MainThread] = "join"
       /\ cop[c] = "Wait" /\ cpc[c] = "lock"
       /\ gs_mutexGui = {-i}

\* the main thread is inside Wait() or Delete()
MainInCall ==
    cop[MainThread] \in {"Wait", "Delete"} /\ cpc[MainThread] # "idle"

\* C15: no deadlock between the main thread and a worker: when the main
\* thread, holding gs_mutexGui, calls Wait() or Delete() on a joinable worker
\* that still has to take and give back the mutex, the worker finishes and
\* the call returns; the mutex never has two holders.
C15_NoGuiDeadlock ==
    /\ [](Cardinality(gs_mutexGui) <= 1)
    /\ MainInCall ~> (cpc[MainThread] = "idle")
    /\ MainInCall ~> (\A i \in OsIds : os_pc[i] \in {"none", "done"})
C15_Witness ==
    \E i \in OsIds :
       /\ cop[MainThread] = "Wait" /\ cpc[MainThread] = "idle"
       /\ c_rc[MainThread] # {}
       /\ os_pc[i] = "done" /\ i \in os_joined
       /\ gs_mutexGui = {MainThread}

\* C20: Kill() on a NEW or EXITED thread yields NOT_RUNNING, calls no
\* pthread_cancel and changes neither the state, the exit code nor
\* gs_nThreadsBeingDeleted; Kill() on a PAUSED thread first resumes it
\* (STATE_RUNNING) and calls pthread_cancel only afterwards.
C20_KillOutcomes ==
    [][\A c \in Callers :
         /\ (cpc[c] = "kill" /\ cpc'[c] # "kill" /\ alive)
            => /\ os_cancel' = os_cancel
               /\ tobj' = tobj /\ os_pc' = os_pc
               /\ gs_nThreadsBeingDeleted' = gs_nThreadsBeingDeleted
               /\ CASE m_state \in {"STATE_NEW", "STATE_EXITED"} ->
                         /\ cpc'[c] = "idle"
                         /\ cres'[c] = "wxTHREAD_NOT_RUNNING"
                    [] m_state = "STATE_PAUSED" -> cpc'[c] = "resume"
                    [] OTHER -> cpc'[c] = "cancel"
         /\ (cop[c] = "Kill" /\ cpc[c] = "resume" /\ cpc'[c] # "resume")
            => /\ os_cancel' = os_cancel
               /\ cpc'[c] = "cancel"
               /\ (alive /\ m_state = "STATE_PAUSED")
                     => m_state' = "STATE_RUNNING"
         /\ (os_cancel' # os_cancel)
            => \E d \in Callers : cpc[d] = "cancel" /\ cpc'[d] # "cancel"
      ]_vars
C20_Witness ==
    \E c \in Callers, i \in OsIds :
       /\ cop[c] = "Kill" /\ cpc[c] = "idle"
       /\ c_state[c] = "STATE_PAUSED" /\ cres[c] = "wxTHREAD_NO_ERROR"
       /\ i \in os_cancel /\ os_pc[i] = "cancelexit"
       /\ alive /\ m_state = "STATE_RUNNING" /\ m_semSuspend = 0
       /\ m_exitcode = EXITCODE_CANCELLED

\* a Wait() that returned handed back the exit code of a cancelled thread
C21_Safe ==
    /\ killed => alive
    /\ \A c \in Callers :
          (cop[c] = "Wait" /\ cpc[c] = "idle")
          => c_rc[c] = {EXITCODE_CANCELLED}

\* C21: once Kill() has returned NO_ERROR for a joinable thread the object
\* stays alive, the state becomes STATE_EXITED, and a Wait() called after
\* that hands back EXITCODE_CANCELLED.
C21_KilledJoinsCancelled ==
    []C21_Safe /\ (killed ~> m_state = "STATE_EXITED")

\* while OnExit() of a detached thread runs, the thread is counted in
\* gs_nThreadsBeingDeleted and its object is there
C22_Counted ==
    \A i \in OsIds :
       os_pc[i] = "onexit" => (gs_nThreadsBeingDeleted > 0 /\ alive)

\* the steps of wxThread::Exit come in the order of the protocol
C22_Order ==
    /\ (alive /\ ~alive')
       => \E i \in OsIds :
             /\ os_pc[i] = "onexit"
             /\ os_pc'[i] = "deleted"
    /\ gs_nThreadsBeingDeleted' < gs_nThreadsBeingDeleted
       => /\ ~alive
          /\ gs_nThreadsBeingDeleted' = gs_nThreadsBeingDeleted - 1
          /\ gs_condAllDeleted' =
                IF gs_nThreadsBeingDeleted' = 0 THEN {}
                ELSE gs_condAllDeleted
    /\ (gs_nThreadsBeingDeleted' >= gs_nThreadsBeingDeleted
           /\ gs_condAllDeleted' # gs_condAllDeleted)
       => \E c \in Callers : cpc[c] \in {"barrier", "allwait"}

C23_ShutdownEmptiesRegistry ==
    \A c \in Callers :
       (cop[c] = "OnExit" /\ cpc[c] = "cleanup") => gs_allThreads = {}

\* C24: wxThreadModule::OnExit leaves its barrier, to count and delete the
\* registered threads, only at a moment when gs_nThreadsBeingDeleted is 0,
\* also when its condition wait has ended without a signal.
C24_BarrierLeftAtZero ==
    [][\A c \in Callers :
          (cpc[c] \in {"barrier", "allwait"} /\ cpc'[c] = "count")
          => gs_nThreadsBeingDeleted' = 0]_vars

\* C25: every Unlock() begins by clearing m_owningThread, before the native
\* unlock and whoever the caller is; whatever the native unlock returns
\* (NO_ERROR, UNLOCKED for a caller that does not hold the mutex, or
\* MISC_ERROR), Unlock() does not write m_owningThread again, so that it
\* cannot erase the identity a thread records after the release.
C25_UnlockClearsOwner ==
    [][\A t \in MutexThreads :
          /\ (mpc[t] = "idle" /\ mpc'[t] = "unlock_native")
             => /\ m_owningThread' = 0
                /\ m_mutex' = m_mutex /\ m_lockDepth' = m_lockDepth
          /\ (mpc[t] = "unlock_native" /\ mpc'[t] = "idle")
             => /\ mres'[t] \in {"wxMUTEX_NO_ERROR", "wxMUTEX_UNLOCKED",
                                 "wxMUTEX_MISC_ERROR"}
                /\ m_owningThread' = m_owningThread
                /\ mres'[t] = "wxMUTEX_NO_ERROR" => m_mutex' # t \/ m_lockDepth' > 0
      ]_vars

\* another thread took the mutex and recorded itself right after an Unlock()
\* of the holder that returned NO_ERROR
C25_Witness ==
    /\ m_type = "wxMUTEX_DEFAULT"
    /\ \E t, u \in MutexThreads :
          /\ t # u
          /\ mop[t] = "Unlock" /\ mpc[t] = "idle"
          /\ mres[t] = "wxMUTEX_NO_ERROR"
          /\ m_mutex = u /\ m_owningThread = u /\ mpc[u] = "idle"

\* C26: when every thread unlocks only what it holds, m_owningThread is
\* either 0 or the thread that holds the native mutex: it is never set while
\* the mutex is unlocked and never names another thread than the holder.
C26_OwnerIsHolder ==
    /\ m_owningThread # 0 => (m_mutex # 0 /\ m_owningThread = m_mutex)
    /\ m_type = "wxMUTEX_RECURSIVE" => m_owningThread = 0

\* the mutex has changed hands: a thread that released it waits for it while
\* the other one holds it and is recorded as its owner
C26_Witness ==
    /\ m_type = "wxMUTEX_DEFAULT"
    /\ \E t, u \in MutexThreads :
          /\ t # u
          /\ mpc[t] \in {"lock_native", "timed_native"}
          /\ mcalls >= 4
          /\ m_mutex = u /\ m_owningThread = u /\ mpc[u] = "idle"

\* a WaitTimeout() that is about to return TIMEOUT has seen at least its
\* milliseconds pass since it read startTime, which it did after the call
C27_NotEarly ==
    \A t \in TimedThreads :
        (spc[t] = "unlock" /\ sop[t] = "WaitTimeout"
                           /\ sres[t] = "wxSEMA_TIMEOUT")
        => clock - s_start[t] >= s_ms[t]

\* a condition wait that ended without timeout leads back to the loop test
\* with startTime and milliseconds as they were; the test hands the time
\* that remains of milliseconds, and never the whole of it again, to the
\* next condition wait, whose deadline is that far from the clock
C27_Recheck ==
    \A t \in TimedThreads :
        sop[t] = "WaitTimeout" =>
          /\ (spc[t] = "woken" /\ s_err[t] = 0 /\ spc'[t] # "woken")
             => /\ spc'[t] = "test"
                /\ s_start'[t] = s_start[t] /\ s_ms'[t] = s_ms[t]
          /\ (spc[t] = "test" /\ spc'[t] = "condwait")
             => /\ s_rem'[t] = s_ms[t] - (clock - s_start[t])
                /\ s_rem'[t] > 0
          /\ (spc[t] = "condwait" /\ spc'[t] = "blocked")
             => s_deadline'[t] = clock + s_rem[t]

Waits == {"Wait", "WaitTimeout"}

\* what a step of thread t inside Wait() or WaitTimeout() may do
C28_Step(t) ==
    /\ (sres'[t] = "wxSEMA_NO_ERROR" /\ sres[t] # "wxSEMA_NO_ERROR")
       => /\ m_count > 0 /\ m_count' = m_count - 1
          /\ s_mutex = t /\ spc'[t] = "unlock"
    /\ m_count' # m_count => sres'[t] = "wxSEMA_NO_ERROR"
    /\ (sres'[t] = "wxSEMA_TIMEOUT" /\ sres[t] # "wxSEMA_TIMEOUT")
       => /\ sop[t] = "WaitTimeout"
          /\ \/ spc[t] = "woken" /\ s_err[t] = 1
             \/ spc[t] = "test" /\ m_count = 0
                                /\ s_ms[t] - (clock - s_start[t]) <= 0
    /\ (sres'[t] = "wxSEMA_MISC_ERROR" /\ sres[t] # "wxSEMA_MISC_ERROR")
       => spc[t] = "condwait"
    /\ spc'[t] = "unlock"
       => sres'[t] \in {"wxSEMA_NO_ERROR", "wxSEMA_TIMEOUT",
                        "wxSEMA_MISC_ERROR"}
    /\ (spc[t] = "test" /\ sop[t] = "WaitTimeout" /\ s_ms[t] = 0
                        /\ m_count = 0)
       => (spc'[t] = "unlock" /\ sres'[t] = "wxSEMA_TIMEOUT")
    /\ (sop[t] = "WaitTimeout" /\ s_ms[t] = 0) => spc'[t] # "blocked"

\* C28: Wait() and WaitTimeout() return NO_ERROR only by decrementing a
\* count that is > 0 at that moment, whatever wakeups came before; they
\* return TIMEOUT (the native wait timed out, or no time remains) or
\* MISC_ERROR (the condition wait failed) without changing the count; and
\* WaitTimeout(0) on an empty semaphore returns TIMEOUT without waiting.
C28_WaitOutcomes ==
    [][\A t \in TimedThreads :
          (sop[t] \in Waits /\ spc'[t] # spc[t]) => C28_Step(t)]_vars

\* a WaitTimeout(0) found the semaphore empty and is returning TIMEOUT, after
\* a wait that was woken without a token took the token of a later Post()
C28_Witness ==
    /\ waits_ok >= 1 /\ m_count = 0
    /\ \E t \in TimedThreads :
          /\ sop[t] = "WaitTimeout" /\ s_ms[t] = 0
          /\ spc[t] = "unlock" /\ sres[t] = "wxSEMA_TIMEOUT"

\* the locks of the thread object that a caller / an OS thread holds (the
\* registry lock and the pending-deletion lock are taken and released inside
\* one step and are held by nobody between steps)
CallerHolds(c) ==
    (IF m_critsect = c THEN {"m_critsect"} ELSE {})
        \cup (IF m_csJoinFlag = c THEN {"m_csJoinFlag"} ELSE {})
OsHolds(i) == IF m_critsect = -i THEN {"m_critsect"} ELSE {}

\* the lock a caller / an OS thread is waiting for, if any
CallerBlockedOn(c) ==
    IF ~alive THEN {}
    ELSE (IF /\ \/ cpc[c] \in {"enter", "delete"}
                \/ cpc[c] = "leave" /\ cop[c] \notin {"Create", "Run"}
             /\ m_critsect \notin {0, c}
          THEN {"m_critsect"} ELSE {})
         \cup (IF cpc[c] \in {"detach", "lock"} /\ m_csJoinFlag \notin {0, c}
               THEN {"m_csJoinFlag"} ELSE {})
OsBlockedOn(i) ==
    IF alive /\ os_pc[i] \in {"test", "running", "worked", "onexit"}
             /\ m_critsect \notin {0, -i}
    THEN {"m_critsect"} ELSE {}

\* C29: a thread that is about to call the user's Entry(), OnExit(),
\* OnDelete() or OnKill(), or to destroy the thread object, holds neither
\* m_critsect nor m_csJoinFlag, and a thread that waits for one of the locks
\* holds no other of them.
C29_NoLockHeldAcross ==
    /\ \A i \in OsIds :
          /\ os_pc[i] \in {"entry", "onexit"} => OsHolds(i) = {}
          /\ OsBlockedOn(i) # {} => OsHolds(i) = {}
    /\ \A c \in Callers :
          /\ cpc[c] \in {"switch", "kill", "deletethread"}
             => CallerHolds(c) = {}
          /\ CallerBlockedOn(c) # {} => CallerHolds(c) \ CallerBlockedOn(c) = {}

\* C30: a Delete() that found a joinable thread PAUSED eventually returns,
\* however its resume step interleaves with the check-point of the thread.
C30_DeletePausedReturns ==
    \A c \in Callers :
        (cop[c] = "Delete" /\ cpc[c] = "switch"
                          /\ c_state[c] = "STATE_PAUSED")
        ~> (cop[c] = "Delete" /\ cpc[c] = "idle")

\* the results a semaphore method can return
SemaResults ==
    {"wxSEMA_NO_ERROR", "wxSEMA_BUSY", "wxSEMA_TIMEOUT", "wxSEMA_OVERFLOW",
     "wxSEMA_MISC_ERROR"}

\* a thread that is outside the methods, waits for the mutex or is inside
\* the condition wait does not hold m_mutex, and the holder is inside a method
C31_Released ==
    /\ \A t \in TimedThreads :
          spc[t] \in {"idle", "lock", "blocked", "woken"} => s_mutex # t
    /\ s_mutex # 0 => spc[s_mutex] \notin {"idle", "lock", "blocked", "woken"}

\* C31: Wait, TryWait, WaitTimeout and Post return with m_mutex released
\* whatever they return (NO_ERROR, BUSY, TIMEOUT, OVERFLOW, MISC_ERROR), so
\* that no thread outside the methods keeps other threads from locking it.
C31_ReturnsUnlocked ==
    /\ []C31_Released
    /\ [][\A t \in TimedThreads :
            (spc[t] # "idle" /\ spc'[t] = "idle")
            => /\ sres[t] \in SemaResults
               /\ s_mutex = t /\ s_mutex' = 0]_vars

\* no call has succeeded so far, a call that failed has returned, and a
\* thread has locked m_mutex after it
C31_Witness ==
    /\ posts_ok = 0 /\ waits_ok = 0 /\ scalls >= 2
    /\ \E u \in TimedThreads :
          /\ s_mutex = u /\ spc[u] = "test"
          /\ \A t \in TimedThreads \ {u} : spc[t] = "idle"

\* C32: gs_allThreads holds exactly the thread objects that exist: only the
\* destructor changes it, by removing the object it destroys, and no step
\* of Create, Run, Pause, Resume, Wait, Delete or Kill that leaves the
\* object in existence changes its membership.
C32_RegistryIsAlive ==
    /\ [](gs_allThreads = IF alive THEN {"thread"} ELSE {})
    /\ [][gs_allThreads' # gs_allThreads
            => /\ alive /\ ~alive'
               /\ gs_allThreads' = gs_allThreads \ {"thread"}]_vars

\* the object has been destroyed after a Delete() or Kill() returned, and
\* the registry is empty
C32_Witness ==
    /\ ~alive /\ gs_allThreads = {}
    /\ \E i \in OsIds : os_pc[i] \in {"deleted", "done"}
    /\ \E c \in Callers : cop[c] \in {"Delete", "Kill"} /\ cpc[c] = "idle"

\* C33: on a wxMUTEX_RECURSIVE mutex no call returns wxMUTEX_DEAD_LOCK,
\* however often the holder locks again, and m_owningThread is 0 in every
\* state: Lock(), Lock(ms), TryLock() and Unlock() all leave it so.
C33_RecursiveUntracked ==
    m_type = "wxMUTEX_RECURSIVE"
    => /\ m_owningThread = 0
       /\ \A t \in MutexThreads : mres[t] # "wxMUTEX_DEAD_LOCK"

\* the holder of a recursive mutex has locked it again with Lock(), which
\* returned wxMUTEX_NO_ERROR, in a sequence of at least five calls
C33_Witness ==
    /\ m_type = "wxMUTEX_RECURSIVE"
    /\ m_lockDepth >= 2
    /\ \E t \in MutexThreads :
          /\ m_mutex = t /\ mpc[t] = "idle"
          /\ mop[t] = "Lock" /\ mres[t] = "wxMUTEX_NO_ERROR"
    /\ mcalls >= 5

\* C34: STATE_EXITED is absorbing: while the object exists, no step takes
\* m_state from STATE_EXITED to another state, and no step posts m_semRun
\* when the state is STATE_EXITED.
C34_ExitedAbsorbing ==
    [][(alive /\ alive' /\ m_state = "STATE_EXITED")
         => /\ m_state' = "STATE_EXITED"
            /\ m_semRun' <= m_semRun]_vars

\* C35: whatever Create() and Run() calls are made on a thread object,
\* pthread_create succeeds for it at most once, and Entry() is called at
\* most once.
C35_OneOsThread ==
    /\ Cardinality({i \in OsIds : os_pc[i] # "none"}) <= 1
    /\ entryCalls <= 1

\* C36: a semaphore constructed with a negative initialcount or maxcount, or
\* with initialcount > maxcount > 0, has m_isOk false; a semaphore whose
\* m_isOk is true has m_count and m_maxcount equal to the arguments.
C36_CtorRejectsBadArgs ==
    s_built
    => /\ Ctor_BadArgs(s_init, s_maxarg) => ~s_isOk
       /\ s_isOk => (m_count = s_init /\ m_maxcount = s_maxarg)

\* the teardowns of a detached thread that are between their
\* ScheduleThreadForDeletion() and the decrement in DeleteThread(): those of
\* Exit(), run by an OS thread, and those of Kill(), run by its caller
Exiting == {i \in OsIds : t_isDetached /\ os_pc[i] \in {"onexit", "deleted"}}
Killing == {c \in Callers : cpc[c] \in {"deletethread", "deleted"}}

\* C37: gs_nThreadsBeingDeleted never goes below zero and is the number of
\* teardowns of a detached thread that have been scheduled and have not
\* completed, so that every decrement undoes an increment made before it
\* by the same teardown (Exit() after Entry(), Exit() from the cleanup
\* function, Kill() without cleanup functions); the deletion of a thread
\* cancelled while STATE_NEW does neither.
C37_PendingCount ==
    /\ gs_nThreadsBeingDeleted >= 0
    /\ gs_nThreadsBeingDeleted = Cardinality(Exiting) + Cardinality(Killing)

\* a detached thread has been killed, its teardown is complete and the
\* counter is back at zero
C37_Witness ==
    /\ t_isDetached /\ ~alive /\ killed
    /\ gs_nThreadsBeingDeleted = 0
    /\ os_cancel # {}
    /\ \A i \in OsIds : os_pc[i] \in {"none", "done"}

\* wxThreadModule::OnExit has returned: gs_mutexAllThreads and
\* gs_mutexDeleteThread have been deleted
LocksDestroyed == \E c \in Callers : cop[c] = "OnExit" /\ cpc[c] = "idle"

\* C38: once wxThreadModule::OnExit has deleted gs_mutexAllThreads and
\* gs_mutexDeleteThread, no step locks them: no destructor of the thread
\* object runs (it removes the object from gs_allThreads under the first)
\* and gs_nThreadsBeingDeleted is neither incremented nor decremented
\* (both are done under the second).
C38_NoUseAfterShutdown ==
    [][LocksDestroyed
         => /\ ~(alive /\ ~alive')
            /\ gs_allThreads' = gs_allThreads
            /\ gs_nThreadsBeingDeleted' = gs_nThreadsBeingDeleted]_vars

\* C39: for a priority p in 0..100 and a range min < max of the policy
\* (neither bound -1) Create() gives the attribute the priority
\* min + p*(max - min)/100 with integer division, which lies in min..max,
\* does not decrease when p grows, is min for p = 0 and max for p = 100;
\* when min = max or a bound is -1 the attribute gets no priority.
C39_PriorityMapping ==
    attr_done
    => IF min_prio # -1 /\ max_prio # -1 /\ min_prio < max_prio
       THEN /\ sp_set
            /\ sched_priority =
                  min_prio + (m_prio * (max_prio - min_prio)) \div 100
            /\ min_prio <= sched_priority /\ sched_priority <= max_prio
            /\ m_prio = 0 => sched_priority = min_prio
            /\ m_prio = 100 => sched_priority = max_prio
            /\ m_prio < 100 =>
                  sched_priority
                     <= Create_SchedPriority(m_prio + 1, min_prio, max_prio)
       ELSE (min_prio = max_prio \/ min_prio = -1 \/ max_prio = -1)
               => ~sp_set

\* a priority strictly inside 0..100 was mapped strictly inside the range
C39_Witness ==
    /\ attr_done /\ sp_set
    /\ 0 < m_prio /\ m_prio < 100
    /\ min_prio < sched_priority /\ sched_priority < max_prio

\* the time of day the deadline starts from, in nanoseconds of its second
NowNsec == IF tv_ok THEN tv_usec * NSEC_IN_USEC ELSE 0

\* C40: the deadline Lock(ms) passes to pthread_mutex_timedlock is
\* normalised, 0 <= tv_nsec < 1,000,000,000, and is the time of day plus
\* ms (compared second by second, so that no number exceeds 32 bits).
C40_DeadlineNormalised ==
    ts_done
    => /\ 0 <= ts_nsec /\ ts_nsec < NSEC_IN_SEC
       /\ (ts_sec - tv_sec - l_ms \div 1000) * NSEC_IN_SEC + ts_nsec
             = NowNsec + (l_ms % 1000) * 1000000

====
